---- MODULE Spec2Model ----
(***************************************************************************)
(* fastcat: the text rendering pipeline.                                   *)
(*                                                                         *)
(* A std::string is a sequence of one-character strings; positions are     *)
(* zero-based as in the C++ source (At(s, i) is s[i]).  The byte 0x1b is   *)
(* the one character written ESC and the backquote is the one character    *)
(* written BQ.  Every operator below is translated from the function of    *)
(* the same name in src/src/csv_formatter.cpp,                            *)
(* src/src/syntax_highlight.cpp, src/src/file_reader.cpp, src/src/main.cpp *)
(* or the argument parser and the pager.                                   *)
(***************************************************************************)
EXTENDS Integers, Sequences, FiniteSets, TLC

VARIABLES
    pc,           \* position of the running operation
    line,         \* the input line of a single-line operation
    profile,      \* SyntaxDefinition::name handed to highlight_line
    tokens,       \* the tokens highlight_line returned
    cells,        \* the cells parse_csv_row or parse_md_row returned
    lines,        \* the lines the reader yields before its end marker
    idx,          \* number of read_line calls that returned a data line
    max_rows,     \* parse_csv's max_rows argument
    row_num,      \* parse_csv's row_num
    table,        \* the CsvTable parse_csv builds
    formatted,    \* the lines a table formatter returned
    col_index,    \* get_rainbow_color's argument, and a second one
    col_other,
    color,        \* get_rainbow_color(col_index), get_rainbow_color(col_other)
    color_other,
    md_looks,     \* looks_like_md_table(line)
    md_sep,       \* is_md_table_separator(line)
    csv_looks,    \* looks_like_csv(line)
    table_lines,  \* the lines parse_md_table_lines returned
    filename,     \* detect_syntax's argument
    detected,     \* what detect_syntax returned
    argv,         \* the command line after the program name
    args,         \* the Arguments parse_args returned
    file_idx,     \* main's position in args.files
    path,         \* process_file's path
    is_tty,       \* isatty(STDOUT_FILENO)
    size_category,\* FileInfo::size_category of the file
    source,       \* the lines of the file, or of standard input
    in_pos,       \* number of lines std::getline took from standard input
    mode,         \* "file" in process_file, "stdin" in process_stdin
    syntax,       \* the std::optional<SyntaxDefinition>, by name
    use_pager,    \* process_file's use_pager
    pager,        \* the Pager (lines_since_pause), or no value
    pauses,       \* number of wait_for_input calls
    all_lines,    \* the lines the Markdown table scan walks
    md_i,         \* the scan's index i
    emitted,      \* number of lines of `formatted` already written
    out           \* the lines written to standard output, in order

vars == <<pc, line, profile, tokens, cells, lines, idx, max_rows, row_num,
          table, formatted, col_index, col_other, color, color_other,
          md_looks, md_sep, csv_looks, table_lines, filename, detected, argv, args,
          file_idx, path, is_tty, size_category, source, in_pos, mode, syntax,
          use_pager, pager, pauses, all_lines, md_i, emitted, out>>

lineVars  == <<line, profile, tokens, cells, md_looks, md_sep, csv_looks>>
csvVars   == <<lines, idx, max_rows, row_num, table, formatted>>
colorVars == <<col_index, col_other, color, color_other>>
detectVars == <<filename, detected>>
envVars   == <<argv, is_tty, size_category, source>>
mainVars  == <<args, file_idx, path, in_pos, mode, syntax, use_pager, pager,
               pauses, all_lines, md_i, emitted, out>>

-----------------------------------------------------------------------------
(* Bounds of the model *)

MaxRowLen == 4      \* longest line handed to parse_csv_row
MaxCellLen == 2     \* longest line of a table source
MaxRows == 2        \* most lines of a table source
MaxCol == 25        \* largest column index handed to get_rainbow_color
MaxMdLen == 4       \* longest line handed to looks_like_md_table
MaxBlockLen == 3    \* longest line of a Markdown block
MaxBlockRows == 2   \* most lines of a Markdown block
MaxHlLen == 4       \* longest line handed to highlight_line
MaxPagerArgs == 2   \* most --pager / --no-pager words on a command line
PageLines == 2      \* the pager's page_lines_ (terminal rows - 2)

-----------------------------------------------------------------------------
(* std::string *)

DQ  == "\""
SQ  == "'"
BSL == "\\"
TAB == "\t"
ESC == "ESC"
BQ  == "BQ"

\* std::string::npos: larger than every position of every string
npos == 1000000

At(s, i) == s[i + 1]

Min(a, b) == IF a < b THEN a ELSE b
Max(a, b) == IF a > b THEN a ELSE b

\* s.substr(pos, n), for pos <= s.length()
Substr(s, pos, n) == SubSeq(s, pos + 1, Min(pos + n, Len(s)))

\* s.substr(pos)
SubstrFrom(s, pos) == SubSeq(s, pos + 1, Len(s))

\* s.find(c, from)
FindChar(s, c, from) ==
    LET hits == {i \in from..(Len(s) - 1) : At(s, i) = c}
    IN  IF hits = {} THEN npos
        ELSE CHOOSE i \in hits : \A j \in hits : i <= j

\* s.find(pat, from), pat not empty
FindStr(s, pat, from) ==
    LET hits == {i \in from..(Len(s) - Len(pat)) : Substr(s, i, Len(pat)) = pat}
    IN  IF hits = {} THEN npos
        ELSE CHOOSE i \in hits : \A j \in hits : i <= j

\* std::count(s.begin() + from, s.end(), c)
CountChar(s, c, from) == Cardinality({i \in from..(Len(s) - 1) : At(s, i) = c})

\* std::string(n, c)
Repeat(c, n) == [i \in 1..n |-> c]

RECURSIVE Concat(_)
\* the strings of a sequence appended in order
Concat(ss) == IF ss = <<>> THEN <<>> ELSE Head(ss) \o Concat(Tail(ss))

\* all strings over alphabet A of length at most n
Strings(A, n) == UNION {[1..k -> A] : k \in 0..n}

\* all sequences of at most n elements of S
Lists(S, n) == UNION {[1..k -> S] : k \in 0..n}

-----------------------------------------------------------------------------
(* csv_formatter.cpp: the delimited-row parser *)

\* a heuristic that asks for a comma only
HasComma(l) == CountChar(l, ",", 0) > 0

\* looks_like_csv
looks_like_csv(l) ==
    LET comma_count == CountChar(l, ",", 0)
        other_chars == Len(l) - comma_count
    IN  comma_count > 0 /\ other_chars > 0

RECURSIVE CsvFieldCommaEnds(_, _, _, _)
\* a field loop in which a comma ends the field inside quotes too
CsvFieldCommaEnds(l, i, in_quotes, value) ==
    IF i >= Len(l) \/ At(l, i) = "," THEN <<value, i>>
    ELSE IF in_quotes /\ At(l, i) = DQ
         THEN IF i + 1 < Len(l) /\ At(l, i + 1) = DQ
              THEN CsvFieldCommaEnds(l, i + 2, TRUE, Append(value, DQ))
              ELSE CsvFieldCommaEnds(l, i + 1, FALSE, value)
         ELSE CsvFieldCommaEnds(l, i + 1, in_quotes, Append(value, At(l, i)))

RECURSIVE CsvField(_, _, _, _)
\* the inner while loop of parse_csv_row: <<value, i>> when it ends
CsvField(l, i, in_quotes, value) ==
    IF i >= Len(l) THEN <<value, i>>
    ELSE IF in_quotes
         THEN IF At(l, i) = DQ
              THEN IF i + 1 < Len(l) /\ At(l, i + 1) = DQ
                   THEN CsvField(l, i + 2, TRUE, Append(value, DQ))
                   ELSE CsvField(l, i + 1, FALSE, value)
              ELSE CsvField(l, i + 1, TRUE, Append(value, At(l, i)))
         ELSE IF At(l, i) = ","
              THEN <<value, i>>
              ELSE CsvField(l, i + 1, FALSE, Append(value, At(l, i)))

\* CsvCell{value, 0, col++}
CsvCell(value, col) == [value |-> value, row |-> 0, col |-> col]

RECURSIVE CsvRowFrom(_, _, _, _)
\* the outer while loop of parse_csv_row
CsvRowFrom(l, i, col, row) ==
    IF i >= Len(l) THEN row
    ELSE LET quoted == At(l, i) = DQ
             f == CsvField(l, IF quoted THEN i + 1 ELSE i, quoted, <<>>)
             j == f[2]
             next == IF j < Len(l) /\ At(l, j) = "," THEN j + 1 ELSE j
         IN  CsvRowFrom(l, next, col + 1, Append(row, CsvCell(f[1], col)))

parse_csv_row(l) == CsvRowFrom(l, 0, 0, <<>>)

-----------------------------------------------------------------------------
(* csv_formatter.cpp: the table model builder *)

\* CsvTable table;
EmptyTable == [rows |-> <<>>, col_widths |-> <<>>, num_cols |-> 0, num_rows |-> 0]

\* std::nullopt
NoTable == "nullopt"

\* a builder that keeps the latest width instead of the largest
WidenToLatest(current, width) == width

\* table.col_widths[i] = std::max(table.col_widths[i], width)
WidenTo(current, width) == Max(current, width)

\* the "Update column widths" loop of parse_csv
UpdateColWidths(col_widths, row) ==
    [i \in 1..Max(Len(col_widths), Len(row)) |->
        IF i > Len(row) THEN col_widths[i]
        ELSE IF i > Len(col_widths) THEN Len(row[i].value)
        ELSE WidenTo(col_widths[i], Len(row[i].value))]

\* table.rows.push_back(std::move(row))
PushRow(rows, row) == Append(rows, row)

-----------------------------------------------------------------------------
(* csv_formatter.cpp: the table renderers *)

\* a rule as wide as the values, without the two spaces around them
RuleDashesNarrow(width) == Repeat("-", width)

\* std::string(table.col_widths[i] + 2, '-')
RuleDashes(width) == Repeat("-", width + 2)

RECURSIVE RuleBody(_)
\* the separator loop: the dashes and '+' for each column
RuleBody(col_widths) ==
    IF col_widths = <<>> THEN <<>>
    ELSE RuleDashes(Head(col_widths)) \o <<"+">> \o RuleBody(Tail(col_widths))

\* std::left << std::setw(width) << value
LeftSetw(value, width) ==
    IF Len(value) >= width THEN value
    ELSE value \o Repeat(" ", width - Len(value))

RECURSIVE PlainCells(_, _, _)
\* the cell loop of format_csv_table, from cell i (zero-based) up to row.size()
PlainCells(row, col_widths, i) ==
    IF i >= Len(row) THEN <<>>
    ELSE <<" ">> \o LeftSetw(row[i + 1].value, col_widths[i + 1]) \o <<" ", "|">>
         \o PlainCells(row, col_widths, i + 1)

PlainRowLine(row, col_widths) == <<"|">> \o PlainCells(row, col_widths, 0)

PlainRule(col_widths) == <<"+">> \o RuleBody(col_widths)

RECURSIVE PlainRows(_, _)
\* the row loop of format_csv_table: the row line, then the rule again
PlainRows(rows, col_widths) ==
    IF rows = <<>> THEN <<>>
    ELSE <<PlainRowLine(Head(rows), col_widths), PlainRule(col_widths)>>
         \o PlainRows(Tail(rows), col_widths)

format_csv_table(t) ==
    <<PlainRule(t.col_widths)>> \o PlainRows(t.rows, t.col_widths)

\* "\033[0m" and "\033[90m"
Reset == <<ESC, "[", "0", "m">>
DimGray == <<ESC, "[", "9", "0", "m">>

\* static const std::size_t num_colors = 12
num_colors == 12

\* color_codes[]
color_codes == <<196, 202, 208, 214, 220, 226, 46, 47, 39, 45, 165, 171>>

RECURSIVE Decimal(_)
\* operator<<(std::ostream&, std::size_t): the decimal digits of n
Decimal(n) ==
    LET digit == <<"0", "1", "2", "3", "4", "5", "6", "7", "8", "9">>
    IN  IF n < 10 THEN <<digit[n + 1]>>
        ELSE Decimal(n \div 10) \o <<digit[(n % 10) + 1]>>

\* a palette index that wraps after six columns
ColorIdxHalf(i) == i % 6

\* std::size_t color_idx = col_index % num_colors
ColorIdx(i) == i % num_colors

get_rainbow_color(i) ==
    <<ESC, "[", "3", "8", ";", "5", ";">> \o Decimal(color_codes[ColorIdx(i) + 1]) \o <<"m">>

RECURSIVE RainbowCells(_, _, _)
\* the cell loop of format_rainbow_csv_table, from cell i (zero-based)
RainbowCells(row, col_widths, i) ==
    IF i >= Len(row) THEN <<>>
    ELSE <<"|">> \o get_rainbow_color(i) \o <<" ">>
         \o LeftSetw(row[i + 1].value, col_widths[i + 1]) \o <<" ">> \o Reset
         \o RainbowCells(row, col_widths, i + 1)

\* a row line that is not closed by a last pipe
RainbowRowOpen(row, col_widths) == RainbowCells(row, col_widths, 0)

\* the row line of format_rainbow_csv_table: the cells, then line += "|"
RainbowRowLine(row, col_widths) == RainbowCells(row, col_widths, 0) \o <<"|">>

RainbowRule(col_widths) == DimGray \o <<"+">> \o RuleBody(col_widths) \o Reset

RECURSIVE RainbowRows(_, _)
RainbowRows(rows, col_widths) ==
    IF rows = <<>> THEN <<>>
    ELSE <<RainbowRowLine(Head(rows), col_widths), RainbowRule(col_widths)>>
         \o RainbowRows(Tail(rows), col_widths)

format_rainbow_csv_table(t) ==
    <<RainbowRule(t.col_widths)>> \o RainbowRows(t.rows, t.col_widths)

-----------------------------------------------------------------------------
(* csv_formatter.cpp: the Markdown table detector *)

IsBlank(c) == c = " " \/ c = TAB

RECURSIVE TrimStart(_, _)
\* while (start < length && blank(trimmed[start])) ++start
TrimStart(l, start) ==
    IF start < Len(l) /\ IsBlank(At(l, start)) THEN TrimStart(l, start + 1) ELSE start

RECURSIVE TrimEnd(_, _, _)
\* while (end > start && blank(trimmed[end - 1])) --end
TrimEnd(l, start, end) ==
    IF end > start /\ IsBlank(At(l, end - 1)) THEN TrimEnd(l, start, end - 1) ELSE end

\* trimmed = trimmed.substr(start, end - start)
Trimmed(l) ==
    LET start == TrimStart(l, 0)
        end == TrimEnd(l, start, Len(l))
    IN  Substr(l, start, end - start)

\* c is one of | - : space tab
IsSepChar(c) == c = "|" \/ c = "-" \/ c = ":" \/ c = " " \/ c = TAB

\* a separator test that does not ask for the leading pipe
AnyStart(t) == t # <<>>

\* the guard of the separator test: !trimmed.empty() && trimmed[0] == '|'
StartsWithPipe(t) == t # <<>> /\ t[1] = "|"

\* a row test that is content with one pipe
AnyPipe(pipe_count) == pipe_count >= 1

\* return pipe_count >= 2
EnoughPipes(pipe_count) == pipe_count >= 2

looks_like_md_table(l) ==
    LET pipe_count == CountChar(l, "|", 0)
        t == Trimmed(l)
    IN  \/ StartsWithPipe(t) /\ \A i \in 1..Len(t) : IsSepChar(t[i])
        \/ EnoughPipes(pipe_count)

is_md_table_separator(l) ==
    LET t == Trimmed(l)
    IN  IF t = <<>> \/ t[1] # "|" THEN FALSE
        ELSE \A i \in 1..Len(t) : IsSepChar(t[i])

RECURSIVE MdTableLinesFrom(_)

\* a loop that skips a line that is no table line and goes on
SkipNonTable(rest) == MdTableLinesFrom(rest)

\* the else branch of parse_md_table_lines' loop: break
StopAtNonTable(rest) == <<>>

\* the for loop of parse_md_table_lines
MdTableLinesFrom(ls) ==
    IF ls = <<>> THEN <<>>
    ELSE IF is_md_table_separator(Head(ls)) THEN MdTableLinesFrom(Tail(ls))
    ELSE IF looks_like_md_table(Head(ls)) THEN <<Head(ls)>> \o MdTableLinesFrom(Tail(ls))
    ELSE StopAtNonTable(Tail(ls))

parse_md_table_lines(ls) == MdTableLinesFrom(ls)


-----------------------------------------------------------------------------
(* csv_formatter.cpp: the Markdown table formatter *)

RECURSIVE TrimFrontSpaces(_)
\* while (!cell.empty() && cell.front() == ' ') cell.erase(cell.begin())
TrimFrontSpaces(cell) ==
    IF cell # <<>> /\ Head(cell) = " " THEN TrimFrontSpaces(Tail(cell)) ELSE cell

RECURSIVE TrimBackSpaces(_)
\* while (!cell.empty() && cell.back() == ' ') cell.pop_back()
TrimBackSpaces(cell) ==
    IF cell # <<>> /\ cell[Len(cell)] = " "
    THEN TrimBackSpaces(SubSeq(cell, 1, Len(cell) - 1)) ELSE cell

RECURSIVE TrimBackBlanks(_)
\* while (!cell.empty() && (cell.back() == ' ' || cell.back() == '\t')) cell.pop_back()
TrimBackBlanks(cell) ==
    IF cell # <<>> /\ IsBlank(cell[Len(cell)])
    THEN TrimBackBlanks(SubSeq(cell, 1, Len(cell) - 1)) ELSE cell

RECURSIVE MdCellsFrom(_, _, _)
\* the "while (start < len)" loop of parse_md_row: cells when it ends
MdCellsFrom(l, start, row_cells) ==
    IF start >= Len(l) THEN row_cells
    ELSE LET pipe_pos == FindChar(l, "|", start)
         IN  IF pipe_pos = npos
             THEN Append(row_cells, TrimBackBlanks(SubstrFrom(l, start)))
             ELSE MdCellsFrom(l, pipe_pos + 1,
                      Append(row_cells,
                          TrimBackSpaces(TrimFrontSpaces(Substr(l, start, pipe_pos - start)))))

parse_md_row(l) ==
    LET first_pipe == FindChar(l, "|", 0)
    IN  IF first_pipe = npos THEN <<l>>
        ELSE MdCellsFrom(l, IF first_pipe # 0 THEN first_pipe ELSE 1, <<>>)

\* the "Update column widths" loop of format_md_table
MdUpdateColWidths(col_widths, row_cells) ==
    [i \in 1..Max(Len(col_widths), Len(row_cells)) |->
        IF i > Len(row_cells) THEN col_widths[i]
        ELSE IF i > Len(col_widths) THEN Len(row_cells[i])
        ELSE Max(col_widths[i], Len(row_cells[i]))]

RECURSIVE MdParseAll(_, _, _, _)
\* the "Parse all rows" loop, from line k (one-based): <<rows, col_widths>>
MdParseAll(md_lines, k, rows, col_widths) ==
    IF k > Len(md_lines) THEN <<rows, col_widths>>
    ELSE LET row_cells == parse_md_row(md_lines[k])
         IN  IF row_cells = <<>>
             THEN MdParseAll(md_lines, k + 1, rows, col_widths)
             ELSE MdParseAll(md_lines, k + 1, Append(rows, row_cells),
                             MdUpdateColWidths(col_widths, row_cells))

\* the lambda pad
pad(s, width) == IF Len(s) >= width THEN s ELSE s \o Repeat(" ", width - Len(s))

\* the lambda build_separator
build_separator(col_widths) ==
    Concat([i \in 1..Len(col_widths) |-> <<"|">> \o Repeat("-", col_widths[i] + 2)])
    \o <<"|">>

\* the line of one row: its cells, then the padding of the remaining columns
MdRowLine(row, col_widths) ==
    Concat([i \in 1..Len(row) |->
               (IF i = 1 THEN <<"|", " ">> ELSE <<" ", "|", " ">>)
               \o pad(row[i], col_widths[i]) \o <<" ">>])
    \o Concat([k \in 1..(Len(col_widths) - Len(row)) |->
               <<" ", "|", " ">> \o Repeat(" ", col_widths[Len(row) + k]) \o <<" ">>])
    \o <<"|">>

RECURSIVE MdRowsFrom(_, _, _)
\* the "Format each row" loop, from row r (zero-based)
MdRowsFrom(rows, col_widths, r) ==
    IF r >= Len(rows) THEN <<>>
    ELSE <<MdRowLine(rows[r + 1], col_widths)>>
         \o (IF r = 0 /\ Len(rows) > 1 THEN <<build_separator(col_widths)>> ELSE <<>>)
         \o MdRowsFrom(rows, col_widths, r + 1)

format_md_table(md_lines) ==
    IF md_lines = <<>> THEN <<>>
    ELSE LET parsed == MdParseAll(md_lines, 1, <<>>, <<>>)
         IN  IF parsed[1] = <<>> THEN <<>>
             ELSE MdRowsFrom(parsed[1], parsed[2], 0)

-----------------------------------------------------------------------------
(* syntax_highlight.h: Color and SyntaxToken *)

\* "\033[" digits "m"
Ansi(digits) == <<ESC, "[">> \o digits \o <<"m">>

Color_RESET      == Ansi(<<"0">>)
Color_BOLD       == Ansi(<<"1">>)
Color_DIM        == Ansi(<<"2">>)
Color_ITALIC     == Ansi(<<"3">>)
Color_GREEN      == Ansi(<<"3", "2">>)
Color_YELLOW     == Ansi(<<"3", "3">>)
Color_BLUE       == Ansi(<<"3", "4">>)
Color_MAGENTA    == Ansi(<<"3", "5">>)
Color_CYAN       == Ansi(<<"3", "6">>)
Color_BRIGHT_RED == Ansi(<<"9", "1">>)

\* the empty color ""
NoColor == <<>>

SyntaxToken(text, tcolor, bold) == [text |-> text, color |-> tcolor, bold |-> bold]

\* the characters std::isdigit and std::isalnum accept
DigitChars == {"0", "1", "2", "3", "4", "5", "6", "7", "8", "9"}

LetterChars ==
    {"a", "b", "c", "d", "e", "f", "g", "h", "i", "j", "k", "l", "m", "n", "o",
     "p", "q", "r", "s", "t", "u", "v", "w", "x", "y", "z",
     "A", "B", "C", "D", "E", "F", "G", "H", "I", "J", "K", "L", "M", "N", "O",
     "P", "Q", "R", "S", "T", "U", "V", "W", "X", "Y", "Z"}

isdigit(c) == c \in DigitChars

isalnum(c) == c \in DigitChars \cup LetterChars

\* line.compare(pos, n, pat) == 0
CompareAt(l, pos, n, pat) == Substr(l, pos, n) = pat

\* a test that takes the prefix only as the whole line
IsWholeLine(l, prefix) == l = prefix

\* starts_with(line, prefix)
starts_with(l, prefix) == CompareAt(l, 0, Len(prefix), prefix)

-----------------------------------------------------------------------------
(* syntax_highlight.cpp: the C-family and Python tokenizers *)

\* the directives whose line highlight_cpp colors whole
Directives ==
    <<
       <<"#", "i", "n", "c", "l", "u", "d", "e">>, <<"#", "d", "e", "f", "i", "n", "e">>, <<"#", "i", "f", "d", "e", "f">>, <<"#", "i", "f", "n", "d", "e", "f">>,
       <<"#", "e", "n", "d", "i", "f">>, <<"#", "e", "l", "s", "e">>, <<"#", "e", "l", "i", "f">>, <<"#", "p", "r", "a", "g", "m", "a">> >>

\* keywords[] of highlight_cpp
CppKeywords ==
    <<
       <<"i", "n", "t">>, <<"l", "o", "n", "g">>, <<"s", "h", "o", "r", "t">>,
       <<"f", "l", "o", "a", "t">>, <<"d", "o", "u", "b", "l", "e">>, <<"c", "h", "a", "r">>,
       <<"v", "o", "i", "d">>, <<"b", "o", "o", "l">>, <<"a", "u", "t", "o">>,
       <<"c", "o", "n", "s", "t">>, <<"s", "t", "a", "t", "i", "c">>, <<"e", "x", "t", "e", "r", "n">>,
       <<"s", "t", "r", "u", "c", "t">>, <<"c", "l", "a", "s", "s">>, <<"e", "n", "u", "m">>,
       <<"u", "n", "i", "o", "n">>, <<"p", "u", "b", "l", "i", "c">>, <<"p", "r", "i", "v", "a", "t", "e">>,
       <<"p", "r", "o", "t", "e", "c", "t", "e", "d">>, <<"v", "i", "r", "t", "u", "a", "l">>, <<"o", "v", "e", "r", "r", "i", "d", "e">>,
       <<"f", "i", "n", "a", "l">>, <<"i", "n", "l", "i", "n", "e">>, <<"c", "o", "n", "s", "t", "e", "x", "p", "r">>,
       <<"m", "u", "t", "a", "b", "l", "e">>, <<"s", "i", "z", "e", "o", "f">>, <<"t", "y", "p", "e", "d", "e", "f">>,
       <<"n", "a", "m", "e", "s", "p", "a", "c", "e">>, <<"t", "e", "m", "p", "l", "a", "t", "e">>, <<"t", "y", "p", "e", "n", "a", "m", "e">>,
       <<"u", "s", "i", "n", "g">>, <<"d", "e", "l", "e", "t", "e">>, <<"n", "o", "e", "x", "c", "e", "p", "t">>,
       <<"s", "t", "a", "t", "i", "c", "_", "a", "s", "s", "e", "r", "t">>, <<"d", "e", "c", "l", "t", "y", "p", "e">>, <<"r", "e", "t", "u", "r", "n">>,
       <<"i", "f">>, <<"e", "l", "s", "e">>, <<"f", "o", "r">>,
       <<"w", "h", "i", "l", "e">>, <<"d", "o">>, <<"s", "w", "i", "t", "c", "h">>,
       <<"c", "a", "s", "e">>, <<"b", "r", "e", "a", "k">>, <<"c", "o", "n", "t", "i", "n", "u", "e">>,
       <<"n", "e", "w">>, <<"t", "h", "i", "s">>, <<"t", "r", "y">>,
       <<"c", "a", "t", "c", "h">>, <<"t", "h", "r", "o", "w">>, <<"n", "u", "l", "l", "p", "t", "r">>,
       <<"t", "r", "u", "e">>, <<"f", "a", "l", "s", "e">>, <<"N", "U", "L", "L">>,
       <<"e", "x", "p", "l", "i", "c", "i", "t">> >>

\* keywords[] of highlight_python
PyKeywords ==
    <<
       <<"d", "e", "f">>, <<"c", "l", "a", "s", "s">>, <<"i", "f">>,
       <<"e", "l", "i", "f">>, <<"e", "l", "s", "e">>, <<"w", "h", "i", "l", "e">>,
       <<"f", "o", "r">>, <<"i", "n">>, <<"t", "r", "y">>,
       <<"e", "x", "c", "e", "p", "t">>, <<"f", "i", "n", "a", "l", "l", "y">>, <<"w", "i", "t", "h">>,
       <<"a", "s">>, <<"i", "m", "p", "o", "r", "t">>, <<"f", "r", "o", "m">>,
       <<"r", "e", "t", "u", "r", "n">>, <<"y", "i", "e", "l", "d">>, <<"r", "a", "i", "s", "e">>,
       <<"p", "a", "s", "s">>, <<"b", "r", "e", "a", "k">>, <<"c", "o", "n", "t", "i", "n", "u", "e">>,
       <<"l", "a", "m", "b", "d", "a">>, <<"a", "n", "d">>, <<"o", "r">>,
       <<"n", "o", "t">>, <<"i", "s">>, <<"g", "l", "o", "b", "a", "l">>,
       <<"n", "o", "n", "l", "o", "c", "a", "l">>, <<"a", "s", "s", "e", "r", "t">>, <<"d", "e", "l">>,
       <<"a", "s", "y", "n", "c">>, <<"a", "w", "a", "i", "t">>, <<"T", "r", "u", "e">>,
       <<"F", "a", "l", "s", "e">>, <<"N", "o", "n", "e">> >>

RECURSIVE QuoteEnd(_, _, _)
\* the "find end of string" loop: search_from when it ends
QuoteEnd(l, search_from, quote) ==
    IF search_from >= Len(l) THEN search_from
    ELSE IF At(l, search_from) = BSL /\ search_from + 1 < Len(l)
         THEN QuoteEnd(l, search_from + 2, quote)
    ELSE IF At(l, search_from) = quote THEN search_from
    ELSE QuoteEnd(l, search_from + 1, quote)

\* where the literal loop looks for the next opening quote: at search_from
NextQuoteFrom(search_from) == search_from

RECURSIVE LiteralLoop(_, _, _, _, _)
\* the string (or character) literal loop: <<tokens, pos>> when it ends
LiteralLoop(l, quote, start, pos, toks) ==
    IF start = npos THEN <<toks, pos>>
    ELSE LET before == IF start > pos
                       THEN <<SyntaxToken(Substr(l, pos, start - pos), NoColor, FALSE)>>
                       ELSE <<>>
             search_from == QuoteEnd(l, start + 1, quote)
             end == IF search_from < Len(l) THEN search_from + 1 ELSE Len(l)
             lit == SyntaxToken(Substr(l, start, end - start), Color_YELLOW, FALSE)
         IN  LiteralLoop(l, quote, FindChar(l, quote, NextQuoteFrom(search_from)), end,
                         toks \o before \o <<lit>>)

\* the word-boundary test of the keyword loop at rpos for keyword kw
KeywordAt(remaining, rpos, kw) ==
    /\ CompareAt(remaining, rpos, Len(kw), kw)
    /\ LET prev == IF rpos > 0 THEN At(remaining, rpos - 1) ELSE " "
           next == IF rpos + Len(kw) < Len(remaining)
                   THEN At(remaining, rpos + Len(kw)) ELSE " "
       IN  ~isalnum(prev) /\ ~isalnum(next) /\ prev # "_" /\ next # "_"

\* result once the keyword loop has appended keyword kw to it
KeywordText(result, kw) ==
    result \o (IF result # <<>> THEN Color_RESET ELSE <<>>)
    \o Color_BLUE \o Color_BOLD \o kw \o Color_RESET

RECURSIVE KeywordScan(_, _, _, _)
\* the "while (rpos < remaining.length())" loop: result when it ends
KeywordScan(remaining, rpos, result, keywords) ==
    IF rpos >= Len(remaining) THEN result
    ELSE LET hits == {k \in 1..Len(keywords) : KeywordAt(remaining, rpos, keywords[k])}
         IN  IF hits = {}
             THEN KeywordScan(remaining, rpos + 1, Append(result, At(remaining, rpos)),
                              keywords)
             ELSE LET kw == keywords[CHOOSE k \in hits : \A h \in hits : k <= h]
                  IN  KeywordScan(remaining, rpos + Len(kw), KeywordText(result, kw),
                                  keywords)

\* the comment and the remaining text, common to highlight_cpp and
\* highlight_python: toks and pos are what the literal loops left
CommentAndRest(l, toks, pos, marker, keywords) ==
    LET comment_pos == FindStr(l, marker, 0)
    IN  IF comment_pos # npos
        THEN toks
             \o (IF comment_pos > pos
                 THEN <<SyntaxToken(Substr(l, pos, comment_pos - pos), NoColor, FALSE)>>
                 ELSE <<>>)
             \o <<SyntaxToken(SubstrFrom(l, comment_pos), Color_DIM, FALSE)>>
        ELSE LET rest == IF pos < Len(l)
                         THEN <<SyntaxToken(KeywordScan(SubstrFrom(l, pos), 0, <<>>, keywords),
                                            NoColor, FALSE)>>
                         ELSE <<>>
                 all == toks \o rest
             IN  IF all = <<>> THEN <<SyntaxToken(l, NoColor, FALSE)>> ELSE all

highlight_cpp(l) ==
    IF \E d \in 1..Len(Directives) : starts_with(l, Directives[d])
    THEN <<SyntaxToken(l, Color_GREEN, FALSE)>>
    ELSE LET strings == LiteralLoop(l, DQ, FindChar(l, DQ, 0), 0, <<>>)
             chars == LiteralLoop(l, SQ, FindChar(l, SQ, 0), strings[2], strings[1])
         IN  CommentAndRest(l, chars[1], chars[2], <<"/", "/">>, CppKeywords)

highlight_python(l) ==
    IF FindStr(l, <<DQ, DQ, DQ>>, 0) # npos \/ FindStr(l, <<SQ, SQ, SQ>>, 0) # npos
    THEN <<SyntaxToken(l, Color_YELLOW, FALSE)>>
    ELSE LET str_start == Min(FindChar(l, DQ, 0), FindChar(l, SQ, 0))
             strings == IF str_start = npos THEN <<<<>>, 0>>
                        ELSE LiteralLoop(l, At(l, str_start), str_start, 0, <<>>)
         IN  CommentAndRest(l, strings[1], strings[2], <<"#">>, PyKeywords)

-----------------------------------------------------------------------------
(* syntax_highlight.cpp: the Markdown tokenizer *)

RECURSIVE FenceAt(_, _)
\* the code block loop: the position of the fence it finds, or npos
FenceAt(l, first_non_space) ==
    IF first_non_space + 3 > Len(l) THEN npos
    ELSE IF CompareAt(l, first_non_space, 3, <<BQ, BQ, BQ>>) THEN first_non_space
    ELSE IF ~IsBlank(At(l, first_non_space)) THEN npos
    ELSE FenceAt(l, first_non_space + 1)

RECURSIVE HashEnd(_, _, _)
\* while (hpos < len && line[hpos] == '#' && hash_count < 6): hpos when it ends
HashEnd(l, hpos, hash_count) ==
    IF hpos < Len(l) /\ At(l, hpos) = "#" /\ hash_count < 6
    THEN HashEnd(l, hpos + 1, hash_count + 1)
    ELSE hpos

\* std::string header_text = line.substr(content_start, hpos + 1)
HeaderText(l, content_start, hpos) == Substr(l, content_start, hpos + 1)

RECURSIVE DigitsEnd(_, _)
\* while (num_end < len && std::isdigit(line[num_end])) ++num_end
DigitsEnd(l, num_end) ==
    IF num_end < Len(l) /\ isdigit(At(l, num_end)) THEN DigitsEnd(l, num_end + 1)
    ELSE num_end

RECURSIVE SepRunEnd(_, _)
\* while (current < len && line[current] is one of - : space) ++current
SepRunEnd(l, current) ==
    IF current < Len(l) /\ At(l, current) \in {"-", ":", " "}
    THEN SepRunEnd(l, current + 1)
    ELSE current

RECURSIVE TextRunEnd(_, _)
\* while (current < len && line[current] != '|') ++current
TextRunEnd(l, current) ==
    IF current < Len(l) /\ At(l, current) # "|" THEN TextRunEnd(l, current + 1)
    ELSE current

RECURSIVE MdTableRow(_, _)
\* the table row loop, from current
MdTableRow(l, current) ==
    IF current >= Len(l) THEN <<>>
    ELSE IF At(l, current) = "|"
         THEN <<SyntaxToken(<<"|">>, Color_BRIGHT_RED, TRUE)>> \o MdTableRow(l, current + 1)
    ELSE IF At(l, current) = "-" \/ At(l, current) = ":"
         THEN LET end == SepRunEnd(l, current)
              IN  <<SyntaxToken(Substr(l, current, end - current), Color_DIM, FALSE)>>
                  \o MdTableRow(l, end)
    ELSE LET end == TextRunEnd(l, current)
         IN  <<SyntaxToken(Substr(l, current, end - current), NoColor, FALSE)>>
             \o MdTableRow(l, end)

\* if (i > pos) tokens.push_back(the text from pos to i)
TextBefore(l, pos, i) ==
    IF i > pos THEN <<SyntaxToken(Substr(l, pos, i - pos), NoColor, FALSE)>> ELSE <<>>

\* the end of a span opened at `from` and closed by the next `closer`, or by
\* the end of the line
SpanEnd(l, closer, from) ==
    LET found == FindStr(l, closer, from)
    IN  IF found = npos THEN Len(l) ELSE found + Len(closer)

\* the end of the [text](url) whose ']' is searched from `from`, or npos
LinkEnd(l, from) ==
    LET bracket_end == FindChar(l, "]", from)
    IN  IF bracket_end # npos /\ bracket_end + 2 < Len(l) /\ At(l, bracket_end + 1) = "("
        THEN LET paren_end == FindChar(l, ")", bracket_end + 2)
             IN  IF paren_end # npos THEN paren_end + 1 ELSE npos
        ELSE npos

RECURSIVE MdInline(_, _, _, _)
\* the inline formatting loop: <<tokens, pos>> when it ends
MdInline(l, i, pos, toks) ==
    IF i >= Len(l) THEN <<toks, pos>>
    ELSE IF At(l, i) = BQ
         THEN LET end == SpanEnd(l, <<BQ>>, i + 1)
              IN  MdInline(l, end, end,
                           toks \o TextBefore(l, pos, i)
                           \o <<SyntaxToken(Substr(l, i, end - i), Color_YELLOW, FALSE)>>)
    ELSE IF At(l, i) = "*" /\ i + 1 < Len(l) /\ At(l, i + 1) = "*"
         THEN LET end == SpanEnd(l, <<"*", "*">>, i + 2)
              IN  MdInline(l, end, end,
                           toks \o TextBefore(l, pos, i)
                           \o <<SyntaxToken(Substr(l, i, end - i), Color_BOLD, FALSE)>>)
    ELSE IF At(l, i) = "_"
         THEN LET end == SpanEnd(l, <<"_">>, i + 1)
              IN  MdInline(l, end, end,
                           toks \o TextBefore(l, pos, i)
                           \o <<SyntaxToken(Substr(l, i, end - i), Color_ITALIC, FALSE)>>)
    ELSE IF At(l, i) = "[" \/ (At(l, i) = "!" /\ i + 1 < Len(l) /\ At(l, i + 1) = "[")
         THEN LET end == LinkEnd(l, IF At(l, i) = "[" THEN i ELSE i + 2)
                  before == toks \o TextBefore(l, pos, i)
              IN  IF end # npos
                  THEN MdInline(l, end, end,
                                before \o <<SyntaxToken(Substr(l, i, end - i), Color_CYAN, FALSE)>>)
                  ELSE MdInline(l, i + 1, pos, before)
    ELSE MdInline(l, i + 1, pos, toks)

\* the rules of highlight_markdown after the block quote and the code fence
MdLineRules(l, content_start) ==
    LET len == Len(l)
        first == IF content_start < len THEN At(l, content_start) ELSE ""
        hpos == HashEnd(l, content_start, 0)
        num_end == DigitsEnd(l, content_start)
        looks_like_table ==
            \/ first = "|"
            \/ len > 0 /\ CountChar(l, "|", content_start) >= 2
    IN  IF first = "#" /\ hpos < len /\ At(l, hpos) = " "
        THEN <<SyntaxToken(HeaderText(l, content_start, hpos), Color_BLUE, TRUE),
               SyntaxToken(SubstrFrom(l, hpos + 1), NoColor, FALSE)>>
        ELSE IF first \in {"-", "*", "+"} /\ content_start + 1 < len
                /\ At(l, content_start + 1) = " "
        THEN <<SyntaxToken(Substr(l, 0, content_start + 2), Color_GREEN, TRUE),
               SyntaxToken(SubstrFrom(l, content_start + 2), NoColor, FALSE)>>
        ELSE IF isdigit(first) /\ num_end < len /\ At(l, num_end) = "."
                /\ num_end + 1 < len /\ At(l, num_end + 1) = " "
        THEN <<SyntaxToken(Substr(l, content_start, num_end - content_start + 2),
                           Color_GREEN, FALSE),
               SyntaxToken(SubstrFrom(l, num_end + 2), NoColor, FALSE)>>
        ELSE IF looks_like_table
        THEN MdTableRow(l, content_start)
        ELSE LET scan == MdInline(l, content_start, 0, <<>>)
                 rest == IF scan[2] < len
                         THEN <<SyntaxToken(SubstrFrom(l, scan[2]), NoColor, FALSE)>>
                         ELSE <<>>
                 toks == scan[1] \o rest
                 lead == IF content_start > 0 /\ toks = <<>>
                         THEN <<SyntaxToken(Substr(l, 0, content_start), NoColor, FALSE)>>
                              \o (IF content_start < len
                                  THEN <<SyntaxToken(SubstrFrom(l, content_start),
                                                     NoColor, FALSE)>>
                                  ELSE <<>>)
                         ELSE toks
             IN  IF lead = <<>> THEN <<SyntaxToken(l, NoColor, FALSE)>> ELSE lead

highlight_markdown(l) ==
    LET len == Len(l)
        content_start == TrimStart(l, 0)
        fence == FenceAt(l, content_start)
    IN  IF content_start < len /\ At(l, content_start) = ">"
        THEN <<SyntaxToken(Substr(l, 0, content_start + 1), Color_DIM, FALSE),
               SyntaxToken(SubstrFrom(l, content_start + 1), Color_CYAN, FALSE)>>
        ELSE IF fence # npos
        THEN (IF fence > 0 THEN <<SyntaxToken(Substr(l, 0, fence), NoColor, FALSE)>>
              ELSE <<>>)
             \o <<SyntaxToken(SubstrFrom(l, fence), Color_GREEN, TRUE)>>
        ELSE MdLineRules(l, content_start)

-----------------------------------------------------------------------------
(* syntax_highlight.cpp: the JSON tokenizer *)

RECURSIVE SkipBlanks(_, _)
\* while (after_quote < len && blank(line[after_quote])) ++after_quote
SkipBlanks(l, after_quote) ==
    IF after_quote < Len(l) /\ IsBlank(At(l, after_quote))
    THEN SkipBlanks(l, after_quote + 1)
    ELSE after_quote

\* a key test that looks only at the character next to the closing quote
IsKeyAdjacent(l, str_end) == str_end < Len(l) /\ At(l, str_end) = ":"

\* bool is_key
IsKey(l, str_end) ==
    LET after_quote == SkipBlanks(l, str_end)
    IN  after_quote < Len(l) /\ At(l, after_quote) = ":"

RECURSIVE NumberEnd(_, _)
\* the number loop: pos when it ends
NumberEnd(l, pos) ==
    IF /\ pos < Len(l)
       /\ \/ isdigit(At(l, pos))
          \/ At(l, pos) \in {".", "e", "E"}
          \/ At(l, pos) \in {"-", "+"} /\ At(l, pos - 1) \in {"e", "E"}
    THEN NumberEnd(l, pos + 1)
    ELSE pos

RECURSIVE JsonFrom(_, _)
\* the while (pos < len) loop of highlight_json
JsonFrom(l, pos) ==
    IF pos >= Len(l) THEN <<>>
    ELSE LET c == At(l, pos)
         IN  IF c = DQ
             THEN LET search_from == QuoteEnd(l, pos + 1, DQ)
                      str_end == IF search_from < Len(l) THEN search_from + 1 ELSE Len(l)
                      tcolor == IF IsKey(l, str_end) THEN Color_MAGENTA ELSE Color_YELLOW
                  IN  <<SyntaxToken(Substr(l, pos, str_end - pos), tcolor, FALSE)>>
                      \o JsonFrom(l, str_end)
             ELSE IF isdigit(c) \/ (c = "-" /\ pos + 1 < Len(l) /\ isdigit(At(l, pos + 1)))
             THEN LET end == NumberEnd(l, IF c = "-" THEN pos + 1 ELSE pos)
                  IN  <<SyntaxToken(Substr(l, pos, end - pos), Color_CYAN, FALSE)>>
                      \o JsonFrom(l, end)
             ELSE IF \/ CompareAt(l, pos, 4, <<"t", "r", "u", "e">>)
                     \/ CompareAt(l, pos, 5, <<"f", "a", "l", "s", "e">>)
                     \/ CompareAt(l, pos, 4, <<"n", "u", "l", "l">>)
             THEN LET kw_len == IF pos + 5 <= Len(l)
                                   /\ CompareAt(l, pos, 5, <<"f", "a", "l", "s", "e">>)
                                THEN 5 ELSE 4
                  IN  <<SyntaxToken(Substr(l, pos, kw_len), Color_GREEN, TRUE)>>
                      \o JsonFrom(l, pos + kw_len)
             ELSE IF c \in {"{", "}", "[", "]"}
             THEN <<SyntaxToken(<<c>>, Color_BRIGHT_RED, TRUE)>> \o JsonFrom(l, pos + 1)
             ELSE <<SyntaxToken(<<c>>, NoColor, FALSE)>> \o JsonFrom(l, pos + 1)

highlight_json(l) ==
    LET toks == JsonFrom(l, 0)
    IN  IF toks = <<>> THEN <<SyntaxToken(l, NoColor, FALSE)>> ELSE toks

\* a dispatch whose default pushes no token for an empty line
DispatchSkippingEmpty(l, name) ==
    IF name = "cpp" THEN highlight_cpp(l)
    ELSE IF name = "python" THEN highlight_python(l)
    ELSE IF name = "markdown" THEN highlight_markdown(l)
    ELSE IF name = "json" THEN highlight_json(l)
    ELSE IF l = <<>> THEN <<>> ELSE <<SyntaxToken(l, NoColor, FALSE)>>

\* highlight_line: the dispatch on syntax.name
highlight_line(l, name) ==
    IF name = "cpp" THEN highlight_cpp(l)
    ELSE IF name = "python" THEN highlight_python(l)
    ELSE IF name = "markdown" THEN highlight_markdown(l)
    ELSE IF name = "json" THEN highlight_json(l)
    ELSE <<SyntaxToken(l, NoColor, FALSE)>>


-----------------------------------------------------------------------------
(* syntax_highlight.cpp: detect_syntax *)

\* std::optional: no value, or one value
None == <<>>
Some(x) == <<x>>

UpperChars == <<"A", "B", "C", "D", "E", "F", "G", "H", "I", "J", "K", "L", "M",
                "N", "O", "P", "Q", "R", "S", "T", "U", "V", "W", "X", "Y", "Z">>
LowerChars == <<"a", "b", "c", "d", "e", "f", "g", "h", "i", "j", "k", "l", "m",
                "n", "o", "p", "q", "r", "s", "t", "u", "v", "w", "x", "y", "z">>

\* ::tolower
tolower(c) ==
    IF \E k \in 1..Len(UpperChars) : UpperChars[k] = c
    THEN LowerChars[CHOOSE k \in 1..Len(UpperChars) : UpperChars[k] = c]
    ELSE c

\* filename.rfind('.')
RFindChar(s, c) ==
    LET hits == {k \in 0..(Len(s) - 1) : At(s, k) = c}
    IN  IF hits = {} THEN npos
        ELSE CHOOSE k \in hits : \A j \in hits : j <= k

\* create_cpp_syntax, create_python_syntax, create_markdown_syntax,
\* create_csv_syntax, create_json_syntax, in the order detect_syntax tries them
SyntaxDefinitions ==
    << [name |-> "cpp",
        extensions |-> << <<".", "c", "p", "p">>, <<".", "h", "p", "p">>,
                          <<".", "c", "x", "x">>, <<".", "h", "x", "x">>,
                          <<".", "c", "c">>, <<".", "h", "h">>,
                          <<".", "C">>, <<".", "h">> >>],
       [name |-> "python",
        extensions |-> << <<".", "p", "y">>, <<".", "p", "y", "w">> >>],
       [name |-> "markdown",
        extensions |-> << <<".", "m", "d">>,
                          <<".", "m", "a", "r", "k", "d", "o", "w", "n">> >>],
       [name |-> "csv",
        extensions |-> << <<".", "c", "s", "v">>, <<".", "t", "s", "v">> >>],
       [name |-> "json",
        extensions |-> << <<".", "j", "s", "o", "n">> >>] >>

\* the name of the first definition that lists ext, or no value
detect_syntax(fname) ==
    LET pos == RFindChar(fname, ".")
        suffix == IF pos # npos THEN SubstrFrom(fname, pos) ELSE <<>>
        ext == [k \in 1..Len(suffix) |-> tolower(suffix[k])]
        hits == {d \in 1..Len(SyntaxDefinitions) :
                    \E e \in 1..Len(SyntaxDefinitions[d].extensions) :
                        SyntaxDefinitions[d].extensions[e] = ext}
    IN  IF hits = {} THEN None
        ELSE Some(SyntaxDefinitions[CHOOSE d \in hits : \A h \in hits : d <= h].name)


-----------------------------------------------------------------------------
(* args.cpp: parse_args.  A word of the command line is one string; Bytes   *)
(* gives the characters of the words that are not options.                  *)

Bytes(word) ==
    CASE word = "a.md"  -> <<"a", ".", "m", "d">>
      [] word = "a.csv" -> <<"a", ".", "c", "s", "v">>
      [] word = "a.txt" -> <<"a", ".", "t", "x", "t">>
      [] word = "-"     -> <<"-">>
      [] OTHER          -> <<"-", "?">>

\* Arguments args
DefaultArguments ==
    [files |-> <<>>, syntax |-> None, theme |-> FALSE, align_csv |-> FALSE,
     align_md_table |-> FALSE, rainbow_csv |-> FALSE, pager |-> FALSE,
     line_numbers |-> FALSE, echo |-> FALSE]

\* a --no-pager that leaves the flag as it is
KeepPager(current) == current

\* args.pager = false
ClearPager(current) == FALSE

RECURSIVE ParseFrom(_, _, _)
\* the for loop of parse_args from word k (one-based, after the program
\* name) and the code after it: the Arguments, or no value
ParseFrom(av, k, a) ==
    IF k > Len(av)
    THEN Some(IF a.files = <<>> THEN [a EXCEPT !.files = <<"-">>] ELSE a)
    ELSE LET arg == av[k]
         IN  IF arg \in {"--help", "-h"} THEN None
             ELSE IF arg = "--theme"
             THEN ParseFrom(av, k + 1, [a EXCEPT !.theme = TRUE])
             ELSE IF arg \in {"--align-csv", "--csv-table"}
             THEN ParseFrom(av, k + 1, [a EXCEPT !.align_csv = TRUE])
             ELSE IF arg \in {"--align-md-table", "--md-table"}
             THEN ParseFrom(av, k + 1, [a EXCEPT !.align_md_table = TRUE])
             ELSE IF arg \in {"--pager", "-p"}
             THEN ParseFrom(av, k + 1, [a EXCEPT !.pager = TRUE])
             ELSE IF arg = "--no-pager"
             THEN ParseFrom(av, k + 1, [a EXCEPT !.pager = ClearPager(@)])
             ELSE IF arg \in {"--linenumber", "-n"}
             THEN ParseFrom(av, k + 1, [a EXCEPT !.line_numbers = TRUE])
             ELSE IF arg \in {"--rainbowcsv", "--rainbow"}
             THEN ParseFrom(av, k + 1, [a EXCEPT !.rainbow_csv = TRUE])
             ELSE IF arg = "-e"
             THEN ParseFrom(av, k + 1, [a EXCEPT !.echo = TRUE])
             ELSE IF arg \in {"--syntax", "-s"}
             THEN IF k + 1 > Len(av) THEN None
                  ELSE ParseFrom(av, k + 2, [a EXCEPT !.syntax = Some(av[k + 1])])
             ELSE IF At(Bytes(arg), 0) # "-"
             THEN ParseFrom(av, k + 1, [a EXCEPT !.files = Append(@, arg)])
             ELSE None

parse_args(av) == ParseFrom(av, 1, DefaultArguments)

-----------------------------------------------------------------------------
(* main.cpp: output_styled_line and the set-up of process_file *)

\* snprintf(buf, sizeof(buf), "%6zu  ", line_num)
LineNumberPrefix(line_num) ==
    LET digits == Decimal(line_num)
    IN  (IF Len(digits) < 6 THEN Repeat(" ", 6 - Len(digits)) ELSE <<>>)
        \o digits \o <<" ", " ">>

\* the for loop over the tokens: color, bold, text, reset
StyledTokens(toks) ==
    Concat([k \in 1..Len(toks) |->
               toks[k].color
               \o (IF toks[k].bold THEN Color_BOLD ELSE <<>>)
               \o toks[k].text \o Color_RESET])

\* the string output_styled_line writes for one line
output_styled_line(l, line_num, syn, line_numbers) ==
    (IF line_numbers THEN LineNumberPrefix(line_num) ELSE <<>>)
    \o (IF syn = None \/ syn[1] = "csv" THEN l
        ELSE StyledTokens(highlight_line(l, syn[1])))

\* "Map short names to full names"
NormalizeAlias(name) ==
    IF name = "md" THEN "markdown"
    ELSE IF name = "py" THEN "python"
    ELSE IF name = "cpp" \/ name = "c" THEN "cpp"
    ELSE name

\* process_file's syntax: the override, normalized, or detect_syntax(path)
FileSyntax(a, file_path) ==
    IF a.syntax # None THEN Some(NormalizeAlias(a.syntax[1]))
    ELSE detect_syntax(Bytes(file_path))

\* process_stdin's syntax: the override as given
StdinSyntax(a) == IF a.syntax # None THEN Some(a.syntax[1]) ELSE None

\* the reader's path_: no constructor of a reader assigns it, so it is the
\* empty string whatever file was opened
ReaderPath(file_path) == <<>>

\* get_file_info: fs::file_size of a path that names no file throws, the
\* size stays 0 and the category is Small; category is that of the file
GetFileInfoCategory(p, category) == IF p = <<>> THEN "Small" ELSE category

\* reader->info().size_category
ReaderInfoCategory(file_path, category) ==
    GetFileInfoCategory(ReaderPath(file_path), category)

\* bool use_pager = args.pager || (is_tty && size_category == Large)
UsePager(a, tty, category) == a.pager \/ (tty /\ category = "Large")

NL == "\n"

\* the bytes of a file whose lines are ls, each ended by a newline
FileBytes(ls) == Concat([k \in 1..Len(ls) |-> ls[k] \o <<NL>>])

RECURSIVE ReaderLines(_, _)
\* the data lines read_line yields from byte offset offset_ to the end marker
ReaderLines(bytes, offset) ==
    IF offset >= Len(bytes) THEN <<>>
    ELSE LET nl == FindChar(bytes, NL, offset)
             stop == IF nl = npos THEN Len(bytes) ELSE nl
         IN  <<Substr(bytes, offset, stop - offset)>>
             \o ReaderLines(bytes, IF stop < Len(bytes) THEN stop + 1 ELSE stop)

\* the byte offsets a new reader can start from.  create_file_reader makes a
\* MemoryMappedReader for a Small file, whose constructor leaves offset_
\* uninitialized: any value (every value past the end acts as the end); a
\* StreamingFileReader reads from the start of the file.
StartOffsets(bytes, category) ==
    IF category = "Small" THEN 0..Len(bytes) ELSE {0}

\* the branch of process_file
FileBranch(a, syn) ==
    IF a.rainbow_csv THEN "parse_csv"
    ELSE IF a.align_csv \/ (syn # None /\ syn[1] = "csv") THEN "parse_csv"
    ELSE IF a.align_md_table \/ (syn # None /\ syn[1] = "markdown") THEN "md_read"
    ELSE "regular"

\* the branch of process_stdin once the lines are collected
StdinBranch(a, syn, ls) ==
    IF a.rainbow_csv \/ (a.align_csv /\ looks_like_csv(ls[1]))
       \/ (syn # None /\ syn[1] = "csv")
    THEN "parse_csv"
    ELSE IF a.align_md_table \/ (syn # None /\ syn[1] = "markdown") THEN "md_scan"
    ELSE "regular"

-----------------------------------------------------------------------------
(* Inputs *)

\* characters of the lines handed to parse_csv_row
RowAlphabet == {"a", "b", ",", DQ}

\* characters of the lines of a table source
CellAlphabet == {"a", ","}

\* name,age / Alice,30 / Bob,7
ExampleSource ==
    << <<"n", "a", "m", "e", ",", "a", "g", "e">>,
       <<"A", "l", "i", "c", "e", ",", "3", "0">>,
       <<"B", "o", "b", ",", "7">> >>

TableSources == Lists(Strings(CellAlphabet, MaxCellLen), MaxRows) \cup {ExampleSource}

\* characters of the lines handed to looks_like_md_table
MdAlphabet == {"|", "-", ":", " ", TAB, "a"}

\* characters of the lines of a Markdown block
BlockAlphabet == {"|", "a"}

\* a|b / -|- / c|d / plain text / e|f
ExampleBlock ==
    << <<"a", "|", "b">>, <<"-", "|", "-">>, <<"c", "|", "d">>,
       <<"p", "l", "a", "i", "n", " ", "t", "e", "x", "t">>, <<"e", "|", "f">> >>

\* the same block with every row written between pipes
PipedBlock ==
    << <<"|", "a", "|", "b", "|">>, <<"|", "-", "|", "-", "|">>,
       <<"|", "c", "|", "d", "|">>,
       <<"p", "l", "a", "i", "n", " ", "t", "e", "x", "t">>,
       <<"|", "e", "|", "f", "|">> >>

MdBlocks ==
    Lists(Strings(BlockAlphabet, MaxBlockLen), MaxBlockRows) \cup {ExampleBlock, PipedBlock}

\* a|b|c  | a | b |  |aa|b|  |a|  a |b<tab>
MdRowExamples ==
    { <<"a", "|", "b", "|", "c">>, <<"|", " ", "a", " ", "|", " ", "b", " ", "|">>,
      <<"|", "a", "a", "|", "b", "|">>, <<"|", "a", "|">>,
      <<"a", " ", "|", "b", TAB>> }

\* the lines handed to parse_md_row
MdRowInputs == Strings(MdAlphabet, MaxMdLen) \cup MdRowExamples

\* |a|b|c|  |a|bb|  |aaa|  a|b|  |a|  b|
MdTableExamples ==
    { <<"|", "a", "|", "b", "|", "c", "|">>, <<"|", "a", "|", "b", "b", "|">>,
      <<"|", "a", "a", "a", "|">>, <<"a", "|", "b", "|">>,
      <<"|", "a", "|", " ", " ", "b", "|">> }

\* the lines process_file collects for format_md_table: table lines that are
\* not separators
MdTableRows ==
    { l \in Strings(BlockAlphabet \cup {" "}, MaxBlockLen) \cup MdRowExamples
             \cup MdTableExamples :
        looks_like_md_table(l) /\ ~is_md_table_separator(l) }

\* the blocks handed to format_md_table: process_file calls it with one row at least
MdTableBlocks == Lists(MdTableRows, MaxBlockRows) \ {<<>>}

\* characters of the lines handed to each tokenizer
CppAlphabet == {DQ, SQ, BSL, "/", "i", "f"}
PyAlphabet == {DQ, SQ, BSL, "#", "i", "f"}
MarkdownAlphabet == {" ", "#", "|", "-", BQ, "_", "a"}
JsonAlphabet == {DQ, BSL, ":", " ", "1", "{"}

\* #include <x>  and  int x = "a"; // c
CppExamples ==
    { <<"#", "i", "n", "c", "l", "u", "d", "e", " ", "<", "x", ">">>,
      <<"i", "n", "t", " ", "x", " ", "=", " ", DQ, "a", DQ, ";", " ", "/", "/", " ", "c">> }

\* what follows a directive:  nothing, X, "a", // c, if, <x>
DirectiveTails ==
    { <<>>, <<"X">>, <<" ", DQ, "a", DQ>>, <<" ", "/", "/", " ", "c">>,
      <<" ", "i", "f">>, <<" ", "<", "x", ">">> }

\* every directive with every tail, and the same lines after one space
DirectiveLines ==
    LET starts == {Directives[d] \o t : d \in 1..Len(Directives), t \in DirectiveTails}
    IN  starts \cup {<<" ">> \o l : l \in starts}

\* x = 'a' # c  and  return x
PyExamples ==
    { <<"x", " ", "=", " ", SQ, "a", SQ, " ", "#", " ", "c">>,
      <<"r", "e", "t", "u", "r", "n", " ", "x">> }

\* [a](b)  ![a](b)  a[b  **a**  **a  1. a  > a  - a  a|b  and a fence
MarkdownExamples ==
    { <<"[", "a", "]", "(", "b", ")">>, <<"!", "[", "a", "]", "(", "b", ")">>,
      <<"a", "[", "b">>, <<"*", "*", "a", "*", "*">>, <<"*", "*", "a">>,
      <<"1", ".", " ", "a">>, <<">", " ", "a">>, <<"-", " ", "a">>,
      <<"a", "|", "b">>, <<" ", BQ, BQ, BQ, "c">> }

\* {"a": 1}  true  false  null  -1.5e+3  ["a"]  "a" <tab> : "b"  "a" <tab> , "b"
JsonExamples ==
    { <<"{", DQ, "a", DQ, ":", " ", "1", "}">>, <<"t", "r", "u", "e">>,
      <<"f", "a", "l", "s", "e">>, <<"n", "u", "l", "l">>,
      <<"-", "1", ".", "5", "e", "+", "3">>, <<"[", DQ, "a", DQ, "]">>,
      <<DQ, "a", DQ, " ", TAB, ":", " ", DQ, "b", DQ>>,
      <<DQ, "a", DQ, " ", TAB, ",", " ", DQ, "b", DQ>> }

\* the lines each profile name is tried on; csv and an unknown name stand for
\* every name highlight_line does not know
HighlightInputs ==
    ({"cpp"} \X (Strings(CppAlphabet, MaxHlLen) \cup CppExamples \cup DirectiveLines))
    \cup ({"python"} \X (Strings(PyAlphabet, MaxHlLen) \cup PyExamples))
    \cup ({"markdown"} \X (Strings(MarkdownAlphabet, MaxHlLen) \cup MarkdownExamples))
    \cup ({"json"} \X (Strings(JsonAlphabet, MaxHlLen) \cup JsonExamples))
    \cup ({"csv", "text"} \X (Strings(CellAlphabet, MaxCellLen) \cup CppExamples))


\* ::toupper, to write an extension in every mix of case
toupper(c) ==
    IF \E k \in 1..Len(LowerChars) : LowerChars[k] = c
    THEN UpperChars[CHOOSE k \in 1..Len(LowerChars) : LowerChars[k] = c]
    ELSE c

\* ext written in every mix of upper and lower case
CaseMixes(ext) ==
    {[k \in 1..Len(ext) |-> IF up[k] THEN toupper(ext[k]) ELSE tolower(ext[k])] :
        up \in [1..Len(ext) -> BOOLEAN]}

\* every extension some profile lists
ListedExtensions ==
    UNION {{SyntaxDefinitions[d].extensions[e] :
               e \in 1..Len(SyntaxDefinitions[d].extensions)} :
           d \in 1..Len(SyntaxDefinitions)}

\* a, a.b and the empty stem, before the extension
Stems == {<<"a">>, <<"a", ".", "b">>, <<>>}

\* names without '.', and names whose extension no profile lists
OtherNames ==
    { <<>>, <<"a">>, <<"m", "d">>, <<"a", ".">>, <<"a", ".", "t", "x", "t">>,
      <<"a", ".", "m", "d", "x">>, <<"a", ".", "m", "d", ".", "b", "a", "k">>,
      <<"a", ".", "d", "/", "c", "p", "p">> }

DetectNames ==
    {stem \o ext : stem \in Stems, ext \in UNION {CaseMixes(e) : e \in ListedExtensions}}
    \cup OtherNames


\* the words before the file name: pager words in any order, then each table
\* option present or not, then a profile override or none
PagerWords == Lists({"--pager", "--no-pager"}, MaxPagerArgs)

TableWords ==
    {a \o r \o m : a \in {<<>>, <<"--align-csv">>},
                   r \in {<<>>, <<"--rainbowcsv">>},
                   m \in {<<>>, <<"--align-md-table">>}}

SyntaxWords == {<<>>} \cup {<<"--syntax", n>> : n \in {"md", "markdown", "py", "csv"}}

\* one file, or -e for standard input
TargetWords == {<<"-e">>, <<"a.md">>, <<"a.csv">>, <<"a.txt">>}

ArgvInputs ==
    {p \o t \o y \o f :
        p \in PagerWords, t \in TableWords, y \in SyntaxWords, f \in TargetWords}

\* no line;  a  ;  a,b / c / d  ;  # a / |a|
MainSources ==
    { <<>>,
      << <<"a">> >>,
      << <<"a", ",", "b">>, <<"c">>, <<"d">> >>,
      << <<"#", " ", "a">>, <<"|", "a", "|">> >> }

-----------------------------------------------------------------------------
(* The state machine *)

LineIdle ==
    /\ line = <<>> /\ profile = "" /\ tokens = <<>> /\ cells = <<>>
    /\ md_looks = FALSE /\ md_sep = FALSE /\ csv_looks = FALSE

CsvIdle ==
    /\ lines = <<>> /\ idx = 0 /\ max_rows = 0 /\ row_num = 0
    /\ table = EmptyTable /\ formatted = <<>>

ColorIdle == col_index = 0 /\ col_other = 0 /\ color = <<>> /\ color_other = <<>>

DetectIdle == filename = <<>> /\ detected = None

MainIdle ==
    /\ argv = <<>> /\ is_tty = FALSE /\ size_category = "Small" /\ source = <<>>
    /\ args = None /\ file_idx = 0 /\ path = "" /\ in_pos = 0 /\ mode = ""
    /\ syntax = None /\ use_pager = FALSE /\ pager = None /\ pauses = 0
    /\ all_lines = <<>> /\ md_i = 0 /\ emitted = 0 /\ out = <<>>

\* parse_csv over a reader that yields `lines`, then a renderer
Init ==
    /\ pc = "parse_csv"
    /\ lines \in TableSources
    /\ max_rows \in 0..MaxRows
    /\ idx = 0 /\ row_num = 0 /\ table = EmptyTable /\ formatted = <<>>
    /\ LineIdle /\ ColorIdle /\ DetectIdle /\ MainIdle /\ table_lines = <<>>

\* a reader that reports its end after the first line
EofAfterFirst(ls, i) == i >= Min(1, Len(ls))

\* read_line returns the end marker: every line has been handed out
IsEof(ls, i) == i >= Len(ls)

\* a limit that also stops at max_rows = 0
LimitAlways(limit, produced) == produced >= limit

\* if (max_rows > 0 && row_num >= max_rows) break
LimitReached(limit, produced) == limit > 0 /\ produced >= limit

\* one iteration of parse_csv's while loop that reaches push_back
ReadRow ==
    /\ pc = "parse_csv"
    /\ idx < Len(lines)
    /\ ~IsEof(lines, idx)
    /\ ~LimitReached(max_rows, row_num)
    /\ LET row == parse_csv_row(lines[idx + 1])
       IN  table' = [table EXCEPT !.col_widths = UpdateColWidths(@, row),
                                  !.rows = PushRow(@, row)]
    /\ idx' = idx + 1
    /\ row_num' = row_num + 1
    /\ UNCHANGED <<pc, lines, max_rows, formatted, lineVars, colorVars,
                   detectVars, envVars, mainVars, table_lines>>

\* the iteration that breaks (end marker, or max_rows reached after one more
\* read_line), and the code after the loop
ReadEnd ==
    /\ pc = "parse_csv"
    /\ IsEof(lines, idx) \/ LimitReached(max_rows, row_num)
    /\ idx' = IF idx < Len(lines) THEN idx + 1 ELSE idx
    /\ IF table.rows = <<>>
       THEN table' = NoTable /\ pc' = "nullopt"
       ELSE /\ table' = [table EXCEPT !.num_cols = Len(table.col_widths),
                                      !.num_rows = Len(table.rows)]
            /\ pc' = "table"
    /\ UNCHANGED <<lines, max_rows, row_num, formatted, lineVars, colorVars,
                   detectVars, envVars, mainVars, table_lines>>

FormatPlain ==
    /\ pc = "table"
    /\ formatted' = format_csv_table(table)
    /\ pc' = "plain"
    /\ UNCHANGED <<lines, idx, max_rows, row_num, table, lineVars, colorVars,
                   detectVars, envVars, mainVars, table_lines>>

FormatRainbow ==
    /\ pc = "table"
    /\ formatted' = format_rainbow_csv_table(table)
    /\ pc' = "rainbow"
    /\ UNCHANGED <<lines, idx, max_rows, row_num, table, lineVars, colorVars,
                   detectVars, envVars, mainVars, table_lines>>

Next == ReadRow \/ ReadEnd \/ FormatPlain \/ FormatRainbow

Spec == Init /\ [][Next]_vars

\* parse_csv_row on one line
InitCsvRow ==
    /\ pc = "parse_csv_row"
    /\ line \in Strings(RowAlphabet, MaxRowLen)
    /\ profile = "" /\ tokens = <<>> /\ cells = <<>>
    /\ md_looks = FALSE /\ md_sep = FALSE /\ csv_looks = FALSE
    /\ CsvIdle /\ ColorIdle /\ DetectIdle /\ MainIdle /\ table_lines = <<>>

ParseRow ==
    /\ pc = "parse_csv_row"
    /\ cells' = parse_csv_row(line)
    /\ pc' = "row"
    /\ UNCHANGED <<line, profile, tokens, md_looks, md_sep, csv_looks, csvVars, colorVars,
                   detectVars, envVars, mainVars, table_lines>>

NextCsvRow == ParseRow

SpecCsvRow == InitCsvRow /\ [][NextCsvRow]_vars

\* looks_like_csv on one line
InitCsvLine ==
    /\ pc = "looks_like_csv"
    /\ line \in Strings(RowAlphabet, MaxRowLen)
    /\ profile = "" /\ tokens = <<>> /\ cells = <<>>
    /\ md_looks = FALSE /\ md_sep = FALSE /\ csv_looks = FALSE
    /\ CsvIdle /\ ColorIdle /\ DetectIdle /\ MainIdle /\ table_lines = <<>>

CheckCsvLine ==
    /\ pc = "looks_like_csv"
    /\ csv_looks' = looks_like_csv(line)
    /\ pc' = "csv_checked"
    /\ UNCHANGED <<line, profile, tokens, cells, md_looks, md_sep, csvVars, colorVars,
                   detectVars, envVars, mainVars, table_lines>>

NextCsvLine == CheckCsvLine

SpecCsvLine == InitCsvLine /\ [][NextCsvLine]_vars

\* get_rainbow_color on two column indices
InitRainbow ==
    /\ pc = "get_rainbow_color"
    /\ col_index \in 0..MaxCol
    /\ col_other \in 0..MaxCol
    /\ color = <<>> /\ color_other = <<>>
    /\ LineIdle /\ CsvIdle /\ DetectIdle /\ MainIdle /\ table_lines = <<>>

Colorize ==
    /\ pc = "get_rainbow_color"
    /\ color' = get_rainbow_color(col_index)
    /\ color_other' = get_rainbow_color(col_other)
    /\ pc' = "color"
    /\ UNCHANGED <<col_index, col_other, lineVars, csvVars, table_lines,
                   detectVars, envVars, mainVars>>

NextRainbow == Colorize

SpecRainbow == InitRainbow /\ [][NextRainbow]_vars

\* highlight_line on one line under one profile
InitHighlight ==
    /\ pc = "highlight_line"
    /\ \E input \in HighlightInputs : profile = input[1] /\ line = input[2]
    /\ tokens = <<>> /\ cells = <<>>
    /\ md_looks = FALSE /\ md_sep = FALSE /\ csv_looks = FALSE
    /\ CsvIdle /\ ColorIdle /\ DetectIdle /\ MainIdle /\ table_lines = <<>>

Highlight ==
    /\ pc = "highlight_line"
    /\ tokens' = highlight_line(line, profile)
    /\ pc' = "highlighted"
    /\ UNCHANGED <<line, profile, cells, md_looks, md_sep, csv_looks, csvVars, colorVars,
                   detectVars, envVars, mainVars, table_lines>>

NextHighlight == Highlight

SpecHighlight == InitHighlight /\ [][NextHighlight]_vars

\* looks_like_md_table and is_md_table_separator on one line
InitMdLine ==
    /\ pc = "md_line"
    /\ line \in Strings(MdAlphabet, MaxMdLen)
    /\ profile = "" /\ tokens = <<>> /\ cells = <<>>
    /\ md_looks = FALSE /\ md_sep = FALSE /\ csv_looks = FALSE
    /\ CsvIdle /\ ColorIdle /\ DetectIdle /\ MainIdle /\ table_lines = <<>>

CheckMdLine ==
    /\ pc = "md_line"
    /\ md_looks' = looks_like_md_table(line)
    /\ md_sep' = is_md_table_separator(line)
    /\ pc' = "md_checked"
    /\ UNCHANGED <<line, profile, tokens, cells, csv_looks, csvVars, colorVars,
                   detectVars, envVars, mainVars, table_lines>>

NextMdLine == CheckMdLine

SpecMdLine == InitMdLine /\ [][NextMdLine]_vars

\* parse_md_table_lines on a list of lines
InitMdBlock ==
    /\ pc = "md_block"
    /\ lines \in MdBlocks
    /\ idx = 0 /\ max_rows = 0 /\ row_num = 0 /\ table = EmptyTable /\ formatted = <<>>
    /\ LineIdle /\ ColorIdle /\ DetectIdle /\ MainIdle /\ table_lines = <<>>

ParseMdBlock ==
    /\ pc = "md_block"
    /\ table_lines' = parse_md_table_lines(lines)
    /\ pc' = "md_parsed"
    /\ UNCHANGED <<csvVars, lineVars, colorVars, detectVars, envVars, mainVars>>

NextMdBlock == ParseMdBlock

SpecMdBlock == InitMdBlock /\ [][NextMdBlock]_vars


\* parse_md_row on one line
InitMdRow ==
    /\ pc = "parse_md_row"
    /\ line \in MdRowInputs
    /\ profile = "" /\ tokens = <<>> /\ cells = <<>>
    /\ md_looks = FALSE /\ md_sep = FALSE /\ csv_looks = FALSE
    /\ CsvIdle /\ ColorIdle /\ DetectIdle /\ MainIdle /\ table_lines = <<>>

ParseMdRow ==
    /\ pc = "parse_md_row"
    /\ cells' = parse_md_row(line)
    /\ pc' = "md_row"
    /\ UNCHANGED <<line, profile, tokens, md_looks, md_sep, csv_looks, csvVars, colorVars,
                   detectVars, envVars, mainVars, table_lines>>

NextMdRow == ParseMdRow

SpecMdRow == InitMdRow /\ [][NextMdRow]_vars

\* format_md_table on a block of table rows
InitMdFormat ==
    /\ pc = "format_md_table"
    /\ lines = <<>> /\ table_lines \in MdTableBlocks
    /\ idx = 0 /\ max_rows = 0 /\ row_num = 0 /\ table = EmptyTable /\ formatted = <<>>
    /\ LineIdle /\ ColorIdle /\ DetectIdle /\ MainIdle

FormatMdTable ==
    /\ pc = "format_md_table"
    /\ formatted' = format_md_table(table_lines)
    /\ pc' = "md_formatted"
    /\ UNCHANGED <<lines, idx, max_rows, row_num, table, table_lines,
                   lineVars, colorVars, detectVars, envVars, mainVars>>

NextMdFormat == FormatMdTable

SpecMdFormat == InitMdFormat /\ [][NextMdFormat]_vars

\* detect_syntax on one file name
InitDetect ==
    /\ pc = "detect_syntax"
    /\ filename \in DetectNames
    /\ detected = None
    /\ LineIdle /\ CsvIdle /\ ColorIdle /\ MainIdle /\ table_lines = <<>>

Detect ==
    /\ pc = "detect_syntax"
    /\ detected' = detect_syntax(filename)
    /\ pc' = "detected"
    /\ UNCHANGED <<filename, lineVars, csvVars, colorVars, envVars, mainVars, table_lines>>

NextDetect == Detect

SpecDetect == InitDetect /\ [][NextDetect]_vars

-----------------------------------------------------------------------------
(* main.cpp: main, process_file and process_stdin *)

InitMain ==
    /\ pc = "main"
    /\ argv \in ArgvInputs
    /\ source \in MainSources
    /\ is_tty \in BOOLEAN
    /\ size_category \in {"Small", "Medium", "Large"}
    /\ "-e" \in {argv[k] : k \in 1..Len(argv)} => (~is_tty /\ size_category = "Small")
    /\ args = None /\ file_idx = 0 /\ path = "" /\ in_pos = 0 /\ mode = ""
    /\ syntax = None /\ use_pager = FALSE /\ pager = None /\ pauses = 0
    /\ all_lines = <<>> /\ md_i = 0 /\ emitted = 0 /\ out = <<>>
    /\ LineIdle /\ CsvIdle /\ ColorIdle /\ DetectIdle /\ table_lines = <<>>

\* main: parse_args, then process_stdin or the first file
ParseArgs ==
    /\ pc = "main"
    /\ args' = parse_args(argv)
    /\ IF args' = None
       THEN pc' = "exit" /\ UNCHANGED <<mode, file_idx, path>>
       ELSE IF args'[1].echo
       THEN pc' = "process_stdin" /\ mode' = "stdin" /\ UNCHANGED <<file_idx, path>>
       ELSE /\ pc' = "process_file" /\ mode' = "file"
            /\ file_idx' = 1 /\ path' = args'[1].files[1]
    /\ UNCHANGED <<in_pos, syntax, use_pager, pager, pauses, all_lines, md_i,
                   emitted, out, lineVars, csvVars, colorVars, detectVars,
                   envVars, table_lines>>

\* process_file up to the branch it takes: reader, use_pager, syntax, pager
OpenFile ==
    /\ pc = "process_file"
    /\ use_pager' = UsePager(args[1], is_tty,
                             ReaderInfoCategory(Bytes(path), size_category))
    /\ syntax' = FileSyntax(args[1], path)
    /\ pager' = IF use_pager' THEN Some([lines_since_pause |-> 0]) ELSE None
    /\ \E offset \in StartOffsets(FileBytes(source), size_category) :
          lines' = ReaderLines(FileBytes(source), offset)
    /\ idx' = 0 /\ max_rows' = 0 /\ row_num' = 0
    /\ table' = EmptyTable /\ formatted' = <<>>
    /\ all_lines' = <<>> /\ md_i' = 0 /\ emitted' = 0
    /\ pc' = FileBranch(args[1], syntax')
    /\ UNCHANGED <<args, file_idx, path, in_pos, mode, pauses, out, lineVars,
                   colorVars, detectVars, envVars, table_lines>>

\* write one line: through the pager, which may pause and be quit, or to
\* std::cout; then go on at next_pc
WriteLine(text, next_pc) ==
    /\ out' = Append(out, text)
    /\ IF use_pager /\ pager # None
       THEN LET since == pager[1].lines_since_pause + 1
            IN  IF since >= PageLines
                THEN /\ pauses' = pauses + 1
                     /\ \E key \in {"more", "q"} :
                          IF key = "q"
                          THEN /\ pager' = Some([lines_since_pause |-> since])
                               /\ pc' = "file_done"
                          ELSE /\ pager' = Some([lines_since_pause |-> 0])
                               /\ pc' = next_pc
                ELSE /\ pager' = Some([lines_since_pause |-> since])
                     /\ pauses' = pauses
                     /\ pc' = next_pc
       ELSE pc' = next_pc /\ UNCHANGED <<pager, pauses>>

\* where a branch goes when its loop ends
AfterBranch == IF mode = "file" THEN "finalize" ELSE "exit"

\* format_rainbow_csv_table or format_csv_table on the table parse_csv returned
FormatTable ==
    /\ pc = "table"
    /\ mode # ""
    /\ formatted' = IF args[1].rainbow_csv THEN format_rainbow_csv_table(table)
                    ELSE format_csv_table(table)
    /\ emitted' = 0
    /\ pc' = "emit"
    /\ UNCHANGED <<lines, idx, max_rows, row_num, table, args, file_idx, path,
                   in_pos, mode, syntax, use_pager, pager, pauses, all_lines,
                   md_i, out, lineVars, colorVars, detectVars, envVars, table_lines>>

\* one iteration of the loop over the formatted lines
EmitLine ==
    /\ pc = "emit"
    /\ emitted < Len(formatted)
    /\ emitted' = emitted + 1
    /\ WriteLine(formatted[emitted + 1],
                 IF emitted + 1 < Len(formatted) THEN "emit" ELSE AfterBranch)
    /\ UNCHANGED <<csvVars, args, file_idx, path, in_pos, mode, syntax, use_pager,
                   all_lines, md_i, lineVars, colorVars, detectVars, envVars,
                   table_lines>>

\* process_file when parse_csv returned no table: the loop that copies what
\* the reader still yields
Fallback ==
    /\ pc = "nullopt"
    /\ mode = "file"
    /\ IF ~IsEof(lines, idx)
       THEN /\ idx' = idx + 1
            /\ IF args[1].rainbow_csv
               THEN /\ out' = Append(out, lines[idx + 1])
                    /\ UNCHANGED <<pc, pager, pauses>>
               ELSE WriteLine((IF use_pager /\ pager # None /\ args[1].line_numbers
                               THEN LineNumberPrefix(idx + 1) ELSE <<>>)
                              \o lines[idx + 1], "nullopt")
       ELSE pc' = "finalize" /\ UNCHANGED <<idx, out, pager, pauses>>
    /\ UNCHANGED <<lines, max_rows, row_num, table, formatted, args, file_idx,
                   path, in_pos, mode, syntax, use_pager, all_lines, md_i, emitted,
                   lineVars, colorVars, detectVars, envVars, table_lines>>

\* one iteration of the loop that fills all_lines
MdReadLine ==
    /\ pc = "md_read"
    /\ IF ~IsEof(lines, idx)
       THEN /\ all_lines' = Append(all_lines, lines[idx + 1])
            /\ idx' = idx + 1
            /\ UNCHANGED <<pc, md_i>>
       ELSE pc' = "md_scan" /\ md_i' = 0 /\ UNCHANGED <<all_lines, idx>>
    /\ UNCHANGED <<lines, max_rows, row_num, table, formatted, args, file_idx,
                   path, in_pos, mode, syntax, use_pager, pager, pauses, emitted,
                   out, lineVars, colorVars, detectVars, envVars, table_lines>>

RECURSIVE BlockEnd(_, _)
\* while (i < size && looks_like_md_table(lines[i])) ++i
BlockEnd(ls, k) ==
    IF k < Len(ls) /\ looks_like_md_table(At(ls, k)) THEN BlockEnd(ls, k + 1) ELSE k

\* the lines of ls from from to to - 1 that are not separators
BlockRows(ls, from, to) ==
    LET RECURSIVE Pick(_)
        Pick(k) == IF k >= to THEN <<>>
                   ELSE (IF is_md_table_separator(At(ls, k)) THEN <<>> ELSE <<At(ls, k)>>)
                        \o Pick(k + 1)
    IN  Pick(from)

\* one iteration of the "Find and format markdown tables" loop
MdScan ==
    /\ pc = "md_scan"
    /\ IF md_i < Len(all_lines)
       THEN IF looks_like_md_table(At(all_lines, md_i))
               /\ ~is_md_table_separator(At(all_lines, md_i))
            THEN LET to == BlockEnd(all_lines, md_i)
                 IN  /\ out' = out \o format_md_table(BlockRows(all_lines, md_i, to))
                     /\ md_i' = to
                     /\ pc' = pc
            ELSE /\ out' = Append(out, At(all_lines, md_i))
                 /\ md_i' = md_i + 1
                 /\ pc' = pc
       ELSE pc' = AfterBranch /\ UNCHANGED <<md_i, out>>
    /\ UNCHANGED <<csvVars, args, file_idx, path, in_pos, mode, syntax, use_pager,
                   pager, pauses, all_lines, emitted, lineVars, colorVars,
                   detectVars, envVars, table_lines>>

\* one iteration of the line-by-line loop: output_styled_line on the next line
StyledLine ==
    /\ pc = "regular"
    /\ IF ~IsEof(lines, idx)
       THEN /\ idx' = idx + 1
            /\ WriteLine(output_styled_line(lines[idx + 1], idx + 1, syntax,
                                            args[1].line_numbers), "regular")
       ELSE pc' = AfterBranch /\ UNCHANGED <<idx, out, pager, pauses>>
    /\ UNCHANGED <<lines, max_rows, row_num, table, formatted, args, file_idx,
                   path, in_pos, mode, syntax, use_pager, all_lines, md_i, emitted,
                   lineVars, colorVars, detectVars, envVars, table_lines>>

\* pager->finalize()
Finalize ==
    /\ pc = "finalize"
    /\ pc' = "file_done"
    /\ UNCHANGED <<csvVars, mainVars, lineVars, colorVars, detectVars, envVars,
                   table_lines>>

\* main's loop over args.files
NextFile ==
    /\ pc = "file_done"
    /\ IF file_idx < Len(args[1].files)
       THEN /\ file_idx' = file_idx + 1
            /\ path' = args[1].files[file_idx + 1]
            /\ pc' = "process_file"
       ELSE pc' = "exit" /\ UNCHANGED <<file_idx, path>>
    /\ UNCHANGED <<csvVars, args, in_pos, mode, syntax, use_pager, pager, pauses,
                   all_lines, md_i, emitted, out, lineVars, colorVars, detectVars,
                   envVars, table_lines>>

\* process_stdin up to its getline loop
StdinStart ==
    /\ pc = "process_stdin"
    /\ syntax' = StdinSyntax(args[1])
    /\ lines' = <<>> /\ in_pos' = 0
    /\ pc' = "getline"
    /\ UNCHANGED <<idx, max_rows, row_num, table, formatted, args, file_idx, path,
                   mode, use_pager, pager, pauses, all_lines, md_i, emitted, out,
                   lineVars, colorVars, detectVars, envVars, table_lines>>

\* one std::getline; at the end of the input, the branch process_stdin takes
GetLine ==
    /\ pc = "getline"
    /\ IF in_pos < Len(source)
       THEN /\ lines' = Append(lines, source[in_pos + 1])
            /\ in_pos' = in_pos + 1
            /\ UNCHANGED <<pc, all_lines>>
       ELSE /\ pc' = IF lines = <<>> THEN "exit"
                     ELSE StdinBranch(args[1], syntax, lines)
            /\ all_lines' = lines
            /\ UNCHANGED <<lines, in_pos>>
    /\ UNCHANGED <<idx, max_rows, row_num, table, formatted, args, file_idx, path,
                   mode, syntax, use_pager, pager, pauses, md_i, emitted, out,
                   lineVars, colorVars, detectVars, envVars, table_lines>>

NextMain ==
    \/ ParseArgs \/ OpenFile \/ ReadRow \/ ReadEnd \/ FormatTable \/ EmitLine
    \/ Fallback \/ MdReadLine \/ MdScan \/ StyledLine \/ Finalize \/ NextFile
    \/ StdinStart \/ GetLine

SpecMain == InitMain /\ [][NextMain]_vars

-----------------------------------------------------------------------------
(* Properties *)

\* the texts of the tokens, appended in order
Texts(toks) == Concat([k \in 1..Len(toks) |-> toks[k].text])

\* C1: for every line and every profile the token texts of highlight_line
\* concatenate to exactly the line: nothing dropped, repeated, reordered or
\* added (no escape sequence inside a token text).
C1_ContentPreserved == pc = "highlighted" => Texts(tokens) = line

\* the values of a row's cells, in column order
Values(row) == [c \in 1..Len(row) |-> row[c].value]

\* a value as the round trip writes it: in double quotes when it holds a comma
Requoted(value) ==
    IF \E i \in 1..Len(value) : value[i] = "," THEN <<DQ>> \o value \o <<DQ>> ELSE value

RECURSIVE Rejoin(_)
\* the values joined with commas
Rejoin(values) ==
    IF values = <<>> THEN <<>>
    ELSE IF Len(values) = 1 THEN Requoted(values[1])
    ELSE Requoted(Head(values)) \o <<",">> \o Rejoin(Tail(values))

RECURSIVE WellFormedFrom(_, _, _)
\* a row is well formed when each field is either free of quotes or is written
\* "..." with every inner quote doubled and the closing quote ending the field
WellFormedFrom(l, i, state) ==
    IF i >= Len(l) THEN state # "quoted"
    ELSE LET c == At(l, i)
         IN  CASE state = "start" ->
                    IF c = DQ THEN WellFormedFrom(l, i + 1, "quoted")
                    ELSE IF c = "," THEN WellFormedFrom(l, i + 1, "start")
                    ELSE WellFormedFrom(l, i + 1, "plain")
               [] state = "plain" ->
                    IF c = DQ THEN FALSE
                    ELSE IF c = "," THEN WellFormedFrom(l, i + 1, "start")
                    ELSE WellFormedFrom(l, i + 1, "plain")
               [] state = "quoted" ->
                    IF c = DQ /\ i + 1 < Len(l) /\ At(l, i + 1) = DQ
                    THEN WellFormedFrom(l, i + 2, "quoted")
                    ELSE IF c = DQ THEN WellFormedFrom(l, i + 1, "closed")
                    ELSE WellFormedFrom(l, i + 1, "quoted")
               [] OTHER ->
                    c = "," /\ WellFormedFrom(l, i + 1, "start")

WellFormedRow(l) == WellFormedFrom(l, 0, "start")

\* C2: for every well-formed row, parsing the row, joining the cell values with
\* commas (a value that holds a comma in double quotes) and parsing again
\* gives the same cell values: same number of cells, same value per column.
C2_RoundTrip ==
    (pc = "row" /\ WellFormedRow(line)) =>
        Values(parse_csv_row(Rejoin(Values(cells)))) = Values(cells)

Returned == pc \in {"table", "plain", "rainbow"}

\* C3: in a table parse_csv returned, every cell of column c is at most
\* col_widths[c] long, some cell of column c is exactly that long, and no row
\* has more cells than col_widths has entries.
C3_WidthInvariant ==
    Returned =>
        /\ \A c \in 1..table.num_cols :
             /\ c <= Len(table.col_widths)
             /\ \A r \in 1..Len(table.rows) :
                  c <= Len(table.rows[r]) =>
                      Len(table.rows[r][c].value) <= table.col_widths[c]
             /\ \E r \in 1..Len(table.rows) :
                  /\ c <= Len(table.rows[r])
                  /\ Len(table.rows[r][c].value) = table.col_widths[c]
        /\ \A r \in 1..Len(table.rows) : Len(table.rows[r]) <= Len(table.col_widths)

\* a returned table with ragged rows whose first column takes its width from
\* the first row, the later row being narrower there
C3_Witness ==
    /\ pc = "table"
    /\ Len(table.rows) = 2
    /\ 0 < Len(table.rows[1]) /\ Len(table.rows[1]) < Len(table.rows[2])
    /\ Len(table.rows[1][1].value) > Len(table.rows[2][1].value)
    /\ table.col_widths[1] = Len(table.rows[1][1].value)
    /\ table.num_cols = 2

\* C4: get_rainbow_color gives the same code for two column indices exactly
\* when they are equal modulo 12; so k and k + 12 agree and 0..11 differ.
C4_RainbowPeriod ==
    pc = "color" =>
        /\ (color = color_other) <=> (col_index % 12 = col_other % 12)
        /\ color # <<>>

\* column k + 12 got the code of column k
C4_Witness ==
    pc = "color" /\ col_other = col_index + 12 /\ color = color_other

\* C5 as stated: the example block yields a|b and c|d.
C5_ExampleAsStated ==
    (pc = "md_parsed" /\ lines = ExampleBlock) =>
        table_lines = << <<"a", "|", "b">>, <<"c", "|", "d">> >>

\* C5 amended: the example block yields no line, because a|b has one pipe and
\* fails looks_like_md_table; written between pipes, the block yields |a|b|
\* and |c|d|: the separator is dropped and collection stops at "plain text".
C5_ExampleAmended ==
    /\ (pc = "md_parsed" /\ lines = ExampleBlock) => table_lines = <<>>
    /\ (pc = "md_parsed" /\ lines = PipedBlock) =>
           table_lines = << <<"|", "a", "|", "b", "|">>, <<"|", "c", "|", "d", "|">> >>

\* parse_md_table_lines ran on the example block
C5_Witness == pc = "md_parsed" /\ lines = ExampleBlock /\ table_lines = <<>>

\* the length of the longest prefix whose lines all satisfy looks_like_md_table
TablePrefix(ls) ==
    CHOOSE k \in 0..Len(ls) :
        /\ \A i \in 1..k : looks_like_md_table(ls[i])
        /\ k = Len(ls) \/ ~looks_like_md_table(ls[k + 1])

NotSeparator(l) == ~is_md_table_separator(l)

OnlySepChars(t) == \A i \in 1..Len(t) : t[i] \in {"|", "-", ":", " ", TAB}

Pipes(l) == Cardinality({i \in 1..Len(l) : l[i] = "|"})

RuleOf(col_widths) ==
    <<"+">> \o Concat([c \in 1..Len(col_widths) |->
                          [i \in 1..(col_widths[c] + 2) |-> "-"] \o <<"+">>])

\* the row line the claim describes
RowLineOf(row, col_widths) ==
    <<"|">> \o Concat([c \in 1..Len(row) |->
                          <<" ">> \o row[c].value
                          \o [i \in 1..(col_widths[c] - Len(row[c].value)) |-> " "]
                          \o <<" ", "|">>])

\* C8: format_csv_table returns 2R+1 lines for R rows, the rule at every even
\* position (from 0) and row r at position 2r+1; the example source gives the
\* widths 5 and 3 and 7 lines.
C8_PlainLayout ==
    pc = "plain" =>
        /\ Len(formatted) = 2 * Len(table.rows) + 1
        /\ \A k \in 0..Len(table.rows) :
               formatted[2 * k + 1] = RuleOf(table.col_widths)
        /\ \A r \in 1..Len(table.rows) :
               formatted[2 * r] = RowLineOf(table.rows[r], table.col_widths)
        /\ (lines = ExampleSource /\ (max_rows = 0 \/ max_rows >= 3)) =>
               table.col_widths = <<5, 3>> /\ Len(formatted) = 7

\* the example table rendered
C8_Witness ==
    /\ pc = "plain" /\ lines = ExampleSource /\ max_rows = 0
    /\ formatted[4] = <<"|", " ", "A", "l", "i", "c", "e", " ", "|", " ", "3", "0", " ", " ", "|">>

RECURSIVE StripAnsi(_)
\* a line without its ANSI escape sequences (ESC up to the next m)
StripAnsi(s) ==
    IF s = <<>> THEN <<>>
    ELSE IF Head(s) = ESC
         THEN StripAnsi(SubSeq(s, Min(FindChar(s, "m", 0), Len(s)) + 2, Len(s)))
         ELSE <<Head(s)>> \o StripAnsi(Tail(s))

Positions(s, c) == {i \in 1..Len(s) : s[i] = c}

\* C9: in plain and rainbow rendering every row line has num_cols cell slots:
\* without escape sequences it is as long as the rule and its pipes stand
\* where the rule's '+' stand.
C9_RaggedRowsPadded ==
    pc \in {"plain", "rainbow"} =>
        \A r \in 1..Len(table.rows) :
            LET rule == StripAnsi(formatted[1])
                row == StripAnsi(formatted[2 * r])
            IN  /\ Len(row) = Len(rule)
                /\ Positions(row, "|") = Positions(rule, "+")

\* C10: in a returned table the cell at rows[r][c] carries row index r and
\* column index c, zero-based.
C10_CellIndices ==
    Returned =>
        \A r \in 1..Len(table.rows) : \A c \in 1..Len(table.rows[r]) :
            /\ table.rows[r][c].row = r - 1
            /\ table.rows[r][c].col = c - 1

\* the number of rows parse_csv takes from n lines under the limit N
RowsTaken(n, N) == IF N = 0 THEN n ELSE Min(n, N)

\* the largest number of cells in any of the rows
MostCells(rows) ==
    IF rows = <<>> THEN 0
    ELSE LET sizes == {Len(rows[r]) : r \in 1..Len(rows)}
         IN  CHOOSE m \in sizes : \A k \in sizes : k <= m

\* C11: parse_csv returns no table exactly when the source has no line;
\* otherwise the rows are the parsed first n lines (limit 0) or the parsed
\* first min(n, N) lines (limit N > 0), in source order, num_rows is that
\* count and num_cols is the largest number of cells in any row.
C11_ParseCsvResult ==
    /\ pc = "nullopt" => Len(lines) = 0
    /\ Returned =>
          LET k == RowsTaken(Len(lines), max_rows)
          IN  /\ Len(lines) > 0
              /\ table.rows = [r \in 1..k |-> parse_csv_row(lines[r])]
              /\ table.num_rows = k
              /\ table.num_cols = MostCells(table.rows)

\* two lines under the limit 1: a table of the first line only
C11_Witness ==
    /\ pc = "table"
    /\ Len(lines) = 2 /\ max_rows = 1
    /\ table.num_rows = 1
    /\ table.rows = <<parse_csv_row(lines[1])>>
    /\ table.num_cols = 2

\* s in lower case
Lowered(s) == [k \in 1..Len(s) |-> tolower(s[k])]

\* the part of a file name from its last '.', or the empty string
ExtensionOf(fname) ==
    IF RFindChar(fname, ".") = npos THEN <<>>
    ELSE SubstrFrom(fname, RFindChar(fname, "."))

\* the profiles that list ext, in any mix of case
ProfilesListing(ext) ==
    {d \in 1..Len(SyntaxDefinitions) :
        \E e \in 1..Len(SyntaxDefinitions[d].extensions) :
            Lowered(SyntaxDefinitions[d].extensions[e]) = Lowered(ext)}

\* C15: detect_syntax matches extensions without regard to case: a name whose
\* extension is listed by a profile, in any mix of case, returns that
\* profile; a name without '.' or with an extension in no set returns none.
C15_CaseInsensitive ==
    pc = "detected" =>
        LET owners == ProfilesListing(ExtensionOf(filename))
        IN  IF owners = {} THEN detected = None
            ELSE detected =
                   Some(SyntaxDefinitions[CHOOSE d \in owners : \A h \in owners : d <= h].name)

\* the delimited-table path is running, or has written its table
InDelimitedPath == pc \in {"parse_csv", "table", "nullopt", "emit"} \/ emitted > 0

\* C12: in the delimited-table modes, from a file and from standard input,
\* nothing is written before the source has been read to its end: whenever
\* an output line exists, every data line has been handed out by read_line
\* (and, for standard input, taken by std::getline).
C12_FullBuffering ==
    (InDelimitedPath /\ out # <<>>) =>
        /\ idx = Len(lines)
        /\ mode = "stdin" => (in_pos = Len(source) /\ lines = source)

\* the first table line of a file of three lines is written, all three read
C12_Witness ==
    /\ mode = "file" /\ pc = "emit"
    /\ Len(out) = 1 /\ emitted = 1
    /\ Len(lines) = 3 /\ idx = 3

\* C13: with align-csv set, rainbow not set and no csv profile, the input is
\* rendered as a delimited table exactly when its first line satisfies
\* looks_like_csv, for a file and for standard input.
C13_TableOnlyWhenCsv ==
    (/\ pc = "exit" /\ args # None /\ lines # <<>>
     /\ args[1].align_csv /\ ~args[1].rainbow_csv /\ syntax # Some("csv")) =>
        (emitted > 0 <=> looks_like_csv(lines[1]))

\* C14: an override name selects the profile it names after alias
\* normalization, the same for a file and for standard input.
C14_SameProfileForOverride ==
    (/\ args # None /\ args[1].syntax # None
     /\ mode # "" /\ pc \notin {"process_file", "process_stdin"}) =>
        syntax = Some(NormalizeAlias(args[1].syntax[1]))

\* the lines of a sequence, as a set
Written(ls) == {ls[k] : k \in 1..Len(ls)}

\* C16: under the Markdown profile with no table option, every input line
\* that is not a table line is written as the Markdown tokenizer renders it,
\* and not raw.
C16_MarkdownLinesTokenized ==
    (/\ pc = "exit" /\ args # None /\ syntax = Some("markdown")
     /\ ~args[1].align_csv /\ ~args[1].rainbow_csv /\ ~args[1].align_md_table) =>
        \A k \in 1..Len(lines) :
            ~looks_like_md_table(lines[k]) =>
                /\ output_styled_line(lines[k], k, syntax, args[1].line_numbers)
                       \in Written(out)
                /\ lines[k] \notin Written(out)

\* --no-pager is on the command line and no --pager or -p follows it
NoPagerLast(av) ==
    \E k \in 1..Len(av) :
        /\ av[k] = "--no-pager"
        /\ \A j \in (k + 1)..Len(av) : av[j] \notin {"--pager", "-p"}

\* C17: when --no-pager is given and --pager is not given after it, no
\* pager is created and no pause happens, whatever the size of the file and
\* whether or not the output is a terminal.
C17_NoPagerHonoured ==
    NoPagerLast(argv) => (~use_pager /\ pager = None /\ pauses = 0)

\* --pager then --no-pager, a Large file, a terminal: a page of lines and
\* more has been written without a pager
C17_Witness ==
    /\ pc = "exit" /\ mode = "file"
    /\ Len(argv) >= 2 /\ argv[1] = "--pager" /\ argv[2] = "--no-pager"
    /\ is_tty /\ size_category = "Large"
    /\ Len(out) > PageLines
    /\ pager = None /\ pauses = 0

\* C18: for every line and every profile name other than cpp, python,
\* markdown and json (csv and unknown names included), highlight_line returns
\* exactly one token: its text is the whole line, its color is empty and it
\* is not bold.
C18_PassThrough ==
    (pc = "highlighted" /\ profile \notin {"cpp", "python", "markdown", "json"}) =>
        tokens = << [text |-> line, color |-> <<>>, bold |-> FALSE] >>

\* int x = "a"; // c  under the csv profile came back as one plain token
C18_Witness ==
    /\ pc = "highlighted" /\ profile = "csv"
    /\ \E k \in 1..Len(line) : line[k] = DQ
    /\ \E k \in 1..Len(line) : line[k] = "/"
    /\ Len(tokens) = 1 /\ tokens[1].text = line

RECURSIVE TokenEnd(_, _)
\* the offset in the line just after the k-th token of toks
TokenEnd(toks, k) == IF k = 0 THEN 0 ELSE TokenEnd(toks, k - 1) + Len(toks[k].text)

\* the first character at or after offset p that is not a space or a tab is ':'
ColonFollows(l, p) ==
    \E j \in p..(Len(l) - 1) :
        /\ At(l, j) = ":"
        /\ \A n \in p..(j - 1) : At(l, n) \in {" ", TAB}

\* the line {"a": 1}
BraceLine == <<"{", DQ, "a", DQ, ":", " ", "1", "}">>

\* C19: in the JSON tokenizer a quoted-string token is magenta (a key)
\* exactly when the first character after it that is not a space or a tab is
\* ':', and yellow (a value) otherwise; the line {"a": 1} gives '{' bold
\* bracket, "a" key, ':' and ' ' unstyled, '1' number, '}' bold bracket.
C19_JsonKeys ==
    (pc = "highlighted" /\ profile = "json") =>
        /\ \A k \in 1..Len(tokens) :
               (tokens[k].text # <<>> /\ Head(tokens[k].text) = DQ) =>
                   /\ tokens[k].bold = FALSE
                   /\ tokens[k].color =
                          IF ColonFollows(line, TokenEnd(tokens, k))
                          THEN Color_MAGENTA ELSE Color_YELLOW
        /\ line = BraceLine =>
               tokens = << [text |-> <<"{">>, color |-> Color_BRIGHT_RED, bold |-> TRUE],
                           [text |-> <<DQ, "a", DQ>>, color |-> Color_MAGENTA, bold |-> FALSE],
                           [text |-> <<":">>, color |-> <<>>, bold |-> FALSE],
                           [text |-> <<" ">>, color |-> <<>>, bold |-> FALSE],
                           [text |-> <<"1">>, color |-> Color_CYAN, bold |-> FALSE],
                           [text |-> <<"}">>, color |-> Color_BRIGHT_RED, bold |-> TRUE] >>

\* "a" <space> <tab> : "b"  gave a key first and a value last
C19_Witness ==
    /\ pc = "highlighted" /\ profile = "json"
    /\ line = <<DQ, "a", DQ, " ", TAB, ":", " ", DQ, "b", DQ>>
    /\ tokens[1].text = <<DQ, "a", DQ>> /\ tokens[1].color = Color_MAGENTA
    /\ tokens[Len(tokens)].text = <<DQ, "b", DQ>>
    /\ tokens[Len(tokens)].color = Color_YELLOW

\* the line begins with one of the eight directives
BeginsWithDirective(l) ==
    \E d \in { <<"#", "i", "n", "c", "l", "u", "d", "e">>, <<"#", "d", "e", "f", "i", "n", "e">>,
               <<"#", "i", "f", "d", "e", "f">>, <<"#", "i", "f", "n", "d", "e", "f">>,
               <<"#", "e", "n", "d", "i", "f">>, <<"#", "e", "l", "s", "e">>,
               <<"#", "e", "l", "i", "f">>, <<"#", "p", "r", "a", "g", "m", "a">> } :
        Len(l) >= Len(d) /\ SubSeq(l, 1, Len(d)) = d

\* C20: for every line that begins with #include, #define, #ifdef, #ifndef,
\* #endif, #else, #elif or #pragma the C-family tokenizer returns exactly one
\* token, the whole line, colored: no string, comment or keyword is split
\* out of it.
C20_DirectiveLine ==
    (pc = "highlighted" /\ profile = "cpp" /\ BeginsWithDirective(line)) =>
        /\ Len(tokens) = 1
        /\ tokens[1].text = line
        /\ tokens[1].color # <<>>

\* #define "a"  came back as one colored token
C20_Witness ==
    /\ pc = "highlighted" /\ profile = "cpp"
    /\ line = <<"#", "d", "e", "f", "i", "n", "e", " ", DQ, "a", DQ>>
    /\ Len(tokens) = 1 /\ tokens[1].text = line /\ tokens[1].color = Color_GREEN

\* C21: looks_like_csv(line) is true if and only if the line contains at
\* least one comma and at least one character that is not a comma.
C21_CommaAndOther ==
    pc = "csv_checked" =>
        (csv_looks <=> /\ \E k \in 1..Len(line) : line[k] = ","
                       /\ \E k \in 1..Len(line) : line[k] # ",")

\* a line of commas only was refused
C21_Witness ==
    /\ pc = "csv_checked" /\ ~csv_looks
    /\ Len(line) >= 2 /\ \A k \in 1..Len(line) : line[k] = ","

\* the characters of s that are not in Drop, in order
RECURSIVE Filter(_, _)
Filter(s, Drop) ==
    IF s = <<>> THEN <<>>
    ELSE (IF Head(s) \in Drop THEN <<>> ELSE <<Head(s)>>) \o Filter(Tail(s), Drop)

\* C22: parse_md_row loses no cell text: the characters of the line that are
\* neither '|' nor whitespace all appear, in order, in the returned cells; the
\* text before the first '|' of a line that does not start with '|' is the
\* first cell (a|b|c gives a, b, c).
C22_NoCellTextLost ==
    pc = "md_row" =>
        /\ Filter(Concat(cells), {" ", TAB}) = Filter(line, {"|", " ", TAB})
        /\ line = <<"a", "|", "b", "|", "c">> => cells = << <<"a">>, <<"b">>, <<"c">> >>

\* the zero-based positions of '|' in a line
PipePositions(l) == {i \in 0..(Len(l) - 1) : At(l, i) = "|"}

\* C23: for every block of table lines with at least two rows format_md_table
\* returns rows + 1 lines, the second one the separator (only '|' and '-'),
\* all of the same length, and the '|' of the separator are at the positions
\* of the '|' of every row line, also with two or more columns and with rows
\* of fewer cells.
C23_SeparatorAligned ==
    (pc = "md_formatted" /\ Len(table_lines) >= 2) =>
        /\ Len(formatted) = Len(table_lines) + 1
        /\ \A i \in 1..Len(formatted[2]) : formatted[2][i] \in {"|", "-"}
        /\ \A k \in 1..Len(formatted) :
               /\ Len(formatted[k]) = Len(formatted[2])
               /\ PipePositions(formatted[k]) = PipePositions(formatted[2])

\* a rainbow row line as the claim describes it: every cell of the plain
\* row, its column's color before it and the reset after it
ColoredRowOf(row, col_widths) ==
    Concat([c \in 1..Len(row) |->
               <<"|">> \o get_rainbow_color(c - 1)
               \o <<" ">> \o row[c].value
               \o [i \in 1..(col_widths[c] - Len(row[c].value)) |-> " "]
               \o <<" ", ESC, "[", "0", "m">>])
    \o <<"|">>

\* C24: for every table the lines of format_rainbow_csv_table without their
\* ANSI escape sequences are exactly the lines of format_csv_table of the same
\* table, and in each rainbow row line the cell of column k comes after
\* get_rainbow_color(k).
C24_RainbowIsPlainColored ==
    pc = "rainbow" =>
        /\ Len(formatted) = Len(format_csv_table(table))
        /\ \A k \in 1..Len(formatted) :
               StripAnsi(formatted[k]) = format_csv_table(table)[k]
        /\ \A r \in 1..Len(table.rows) :
               formatted[2 * r] = ColoredRowOf(table.rows[r], table.col_widths)

\* the example table rendered in colors: the row of Alice
C24_Witness ==
    /\ pc = "rainbow" /\ lines = ExampleSource /\ max_rows = 0
    /\ Len(formatted) = 7
    /\ formatted[4] # StripAnsi(formatted[4])
    /\ StripAnsi(formatted[4]) =
           <<"|", " ", "A", "l", "i", "c", "e", " ", "|", " ", "3", "0", " ", " ", "|">>

RECURSIVE CloseQuote(_, _)
\* the position of the quote that closes a quoted field whose text starts at
\* i: the first '"' that is not the first of a "" pair; Len(l) when none
CloseQuote(l, i) ==
    IF i >= Len(l) THEN Len(l)
    ELSE IF At(l, i) # DQ THEN CloseQuote(l, i + 1)
    ELSE IF i + 1 < Len(l) /\ At(l, i + 1) = DQ THEN CloseQuote(l, i + 2)
    ELSE i

RECURSIVE Unescaped(_)
\* a quoted text with every "" pair written as one '"'
Unescaped(s) ==
    IF s = <<>> THEN <<>>
    ELSE IF Len(s) >= 2 /\ s[1] = DQ /\ s[2] = DQ THEN <<DQ>> \o Unescaped(SubSeq(s, 3, Len(s)))
    ELSE <<Head(s)>> \o Unescaped(Tail(s))

\* the position of the first comma at or after i, Len(l) when none
CommaOrEnd(l, i) == Min(FindChar(l, ",", i), Len(l))

\* where the field that starts at s ends: at the comma after it, or at the
\* end of the line
FieldEnd(l, s) ==
    IF s < Len(l) /\ At(l, s) = DQ
    THEN LET q == CloseQuote(l, s + 1)
         IN  IF q >= Len(l) THEN Len(l) ELSE CommaOrEnd(l, q + 1)
    ELSE CommaOrEnd(l, s)

RECURSIVE FieldStart(_, _)
\* where the k-th field of the line starts
FieldStart(l, k) == IF k = 1 THEN 0 ELSE FieldEnd(l, FieldStart(l, k - 1)) + 1

\* the value of the quoted field that starts at s: the text between the
\* quotes, unescaped, then what stands between the closing quote and the comma
QuotedValue(l, s) ==
    LET q == CloseQuote(l, s + 1)
    IN  Unescaped(Substr(l, s + 1, q - (s + 1)))
        \o (IF q >= Len(l) THEN <<>> ELSE Substr(l, q + 1, FieldEnd(l, s) - (q + 1)))

\* C25: a field of parse_csv_row that begins with '"' is read in quoted mode:
\* commas inside it do not end it, each "" pair adds one '"', the first other
\* '"' ends quoted mode and is not in the value, without a closing '"' the
\* field takes the rest of the line; the opening quote is never in the value.
C25_QuotedField ==
    pc = "row" =>
        \A k \in 1..Len(cells) :
            LET s == FieldStart(line, k)
            IN  /\ s < Len(line)
                /\ At(line, s) = DQ => cells[k].value = QuotedValue(line, s)

\* the line  ",""  : a comma and a "" pair inside quotes that are never closed
C25_Witness ==
    /\ pc = "row" /\ line = <<DQ, ",", DQ, DQ>>
    /\ Len(cells) = 1 /\ cells[1].value = <<",", DQ>>

RECURSIVE OutsideCommas(_, _)
\* the number of commas outside quoted fields, from the field that starts at s
OutsideCommas(l, s) ==
    IF FieldEnd(l, s) >= Len(l) THEN 0
    ELSE 1 + OutsideCommas(l, FieldEnd(l, s) + 1)

\* C26: for every non-empty line parse_csv_row returns (commas outside quoted
\* fields) + 1 cells with the column indices 0, 1, ... in order; the line
\* a,b,  ends with an empty third cell.
C26_CellPerField ==
    (pc = "row" /\ line # <<>>) =>
        /\ Len(cells) = OutsideCommas(line, 0) + 1
        /\ \A c \in 1..Len(cells) : cells[c].col = c - 1
        /\ line = <<"a", ",", "b", ",">> =>
               Values(cells) = << <<"a">>, <<"b">>, <<>> >>

RECURSIVE LiteralClose(_, _, _)
\* the position of the first quote q at or after i that no backslash
\* escapes; Len(l) when there is none
LiteralClose(l, i, q) ==
    IF i >= Len(l) THEN Len(l)
    ELSE IF At(l, i) = BSL /\ i + 1 < Len(l) THEN LiteralClose(l, i + 2, q)
    ELSE IF At(l, i) = q THEN i
    ELSE LiteralClose(l, i + 1, q)

\* the position of the first of the quotes at or after i; Len(l) when none
FirstQuote(l, i, quotes) ==
    IF \E p \in i..(Len(l) - 1) : At(l, p) \in quotes
    THEN CHOOSE p \in i..(Len(l) - 1) :
             At(l, p) \in quotes /\ \A n \in i..(p - 1) : At(l, n) \notin quotes
    ELSE Len(l)

RECURSIVE AllTerminated(_, _, _)
\* every literal that opens at or after i has its closing quote
AllTerminated(l, i, quotes) ==
    LET open == FirstQuote(l, i, quotes)
    IN  open >= Len(l)
        \/ LET close == LiteralClose(l, open + 1, At(l, open))
           IN  close < Len(l) /\ AllTerminated(l, close + 1, quotes)

RECURSIVE LiteralSpans(_, _, _)
\* the literals of the line from i on, each from its opening quote through
\* its closing quote
LiteralSpans(l, i, quotes) ==
    LET open == FirstQuote(l, i, quotes)
    IN  IF open >= Len(l) THEN <<>>
        ELSE LET close == LiteralClose(l, open + 1, At(l, open))
             IN  <<Substr(l, open, close - open + 1)>> \o LiteralSpans(l, close + 1, quotes)

\* the texts of the string-colored tokens, in order
StringTokens(toks) ==
    LET yellow == SelectSeq(toks, LAMBDA t : t.color = Color_YELLOW)
    IN  [k \in 1..Len(yellow) |-> yellow[k].text]

\* C27: in the C-family and Python tokenizers a line whose k string literals
\* are all terminated, with no comment marker, gives exactly k string-colored
\* tokens, each from its opening quote through its matching closing quote (an
\* escaped quote does not close); a closing quote never opens another token.
C27_OneTokenPerLiteral ==
    /\ (/\ pc = "highlighted" /\ profile = "cpp"
        /\ FindStr(line, <<"/", "/">>, 0) = npos /\ FindChar(line, SQ, 0) = npos
        /\ ~BeginsWithDirective(line)
        /\ AllTerminated(line, 0, {DQ})) =>
            StringTokens(tokens) = LiteralSpans(line, 0, {DQ})
    /\ (/\ pc = "highlighted" /\ profile = "python"
        /\ FindChar(line, "#", 0) = npos
        /\ FindStr(line, <<DQ, DQ, DQ>>, 0) = npos /\ FindStr(line, <<SQ, SQ, SQ>>, 0) = npos
        /\ AllTerminated(line, 0, {DQ, SQ})) =>
            StringTokens(tokens) = LiteralSpans(line, 0, {DQ, SQ})

RECURSIVE InsideLiterals(_, _, _)
\* the positions from i on that are inside a literal, its quotes included; a
\* literal without closing quote runs to the end of the line
InsideLiterals(l, i, quotes) ==
    LET open == FirstQuote(l, i, quotes)
    IN  IF open >= Len(l) THEN {}
        ELSE LET close == LiteralClose(l, open + 1, At(l, open))
             IN  (open..Min(close, Len(l) - 1)) \cup InsideLiterals(l, close + 1, quotes)

\* the token is a comment that starts at a marker outside every literal and
\* runs to the end of the line
CommentFromOutside(l, token, marker) ==
    \E p \in 0..(Len(l) - 1) :
        /\ Substr(l, p, Len(marker)) = marker
        /\ p \notin InsideLiterals(l, 0, {DQ, SQ})
        /\ token.text = SubstrFrom(l, p)

\* C28: a comment marker inside a string or character literal never starts a
\* comment token: a comment token of the C-family tokenizer starts at a "//"
\* outside every literal, one of the Python tokenizer at a '#' outside every
\* string literal, and it runs to the end of the line.
C28_CommentOutsideLiterals ==
    pc = "highlighted" =>
        \A k \in 1..Len(tokens) :
            tokens[k].color = Color_DIM =>
                /\ profile = "cpp" => CommentFromOutside(line, tokens[k], <<"/", "/">>)
                /\ profile = "python" => CommentFromOutside(line, tokens[k], <<"#">>)

\* the first character of the line that is not a blank, "" when there is none
FirstNonBlank(l) ==
    IF \E i \in 1..Len(l) : ~IsBlank(l[i])
    THEN l[CHOOSE i \in 1..Len(l) : ~IsBlank(l[i]) /\ \A n \in 1..(i - 1) : IsBlank(l[n])]
    ELSE ""

\* a line that none of the block rules takes: no quote, fence, heading,
\* bullet or number at its start, and no pipe
InlineLine(l) ==
    /\ FirstNonBlank(l) \notin {">", "#", "-", "*", "+", "|",
                                "0", "1", "2", "3", "4", "5", "6", "7", "8", "9"}
    /\ FindStr(l, <<BQ, BQ, BQ>>, 0) = npos
    /\ FindChar(l, "|", 0) = npos

\* the openers of the inline scan and the style of their token
InlineOpeners ==
    { [open |-> <<BQ>>, style |-> Color_YELLOW],
      [open |-> <<"*", "*">>, style |-> Color_BOLD],
      [open |-> <<"_">>, style |-> Color_ITALIC] }

\* the line holds no inline marker before p
NoMarkerBefore(l, p) ==
    \A n \in 0..(p - 1) :
        /\ At(l, n) \notin {BQ, "_", "["}
        /\ Substr(l, n, 2) # <<"*", "*">>

\* C29: in the Markdown inline scan malformed markup loses and repeats no
\* text: the token texts concatenate to the line; a first opening backtick,
\* '**' or '_' that is never closed gives one styled token from the opener to
\* the end of the line; a '[' or '![' that is not completed as [text](url)
\* gives no link token.
C29_MalformedInline ==
    (pc = "highlighted" /\ profile = "markdown" /\ InlineLine(line)) =>
        /\ Texts(tokens) = line
        /\ \A o \in InlineOpeners : \A p \in 0..(Len(line) - 1) :
               (/\ Substr(line, p, Len(o.open)) = o.open
                /\ NoMarkerBefore(line, p)
                /\ FindStr(line, o.open, p + Len(o.open)) = npos) =>
                   tokens = (IF p > 0 THEN <<[text |-> Substr(line, 0, p), color |-> <<>>,
                                              bold |-> FALSE]>>
                             ELSE <<>>)
                            \o <<[text |-> SubstrFrom(line, p), color |-> o.style,
                                  bold |-> FALSE]>>
        /\ FindStr(line, <<"]", "(">>, 0) = npos =>
               \A k \in 1..Len(tokens) : tokens[k].color # Color_CYAN

RECURSIVE RunEnd(_, _, _)
\* the end of the run of characters of S that starts at i
RunEnd(l, i, S) == IF i < Len(l) /\ At(l, i) \in S THEN RunEnd(l, i + 1, S) ELSE i

RECURSIVE RowTokens(_, _)
\* a table row as the claim describes it, from position i: a token per '|',
\* a separator token per run of '-', ':' and spaces that starts with '-' or
\* ':', an unstyled token per other run of text up to the next '|'
RowTokens(l, i) ==
    IF i >= Len(l) THEN <<>>
    ELSE IF At(l, i) = "|"
         THEN <<[text |-> <<"|">>, color |-> Color_BRIGHT_RED, bold |-> TRUE]>>
              \o RowTokens(l, i + 1)
    ELSE IF At(l, i) \in {"-", ":"}
         THEN LET e == RunEnd(l, i, {"-", ":", " "})
              IN  <<[text |-> Substr(l, i, e - i), color |-> Color_DIM, bold |-> FALSE]>>
                  \o RowTokens(l, e)
    ELSE LET e == Min(FindChar(l, "|", i), Len(l))
         IN  <<[text |-> Substr(l, i, e - i), color |-> <<>>, bold |-> FALSE]>>
             \o RowTokens(l, e)

\* C30: in the Markdown tokenizer a line that none of the earlier rules takes
\* and that holds at least one '|', also a single '|' that is not its first
\* character, is tokenized as a table row from its first non-blank character.
C30_PipeLineIsTableRow ==
    (/\ pc = "highlighted" /\ profile = "markdown"
     /\ FirstNonBlank(line) \notin {">", "#", "-", "*", "+",
                                    "0", "1", "2", "3", "4", "5", "6", "7", "8", "9"}
     /\ FindStr(line, <<BQ, BQ, BQ>>, 0) = npos
     /\ FindChar(line, "|", 0) # npos) =>
        tokens = RowTokens(line, RunEnd(line, 0, {" ", TAB}))

====
